---- MODULE Spec2Model ----
(***************************************************************************)
(* A model of the swiss-public-transport server's core:                    *)
(*   - the process-wide GTFS lookup cache     (src/src/gtfs/lookup.ts)     *)
(*   - the CSV tokenizer of the lookup builder                             *)
(*                                    (src/scripts/build-gtfs-lookup.ts)   *)
(*   - the risk model and the decision summary                             *)
(*                                    (src/src/insights/decision.ts)       *)
(*   - the connection search and its normalisation                         *)
(*                                    (src/src/api/transport.ts)           *)
(*   - the lookup builder's tables and its run                             *)
(*                                    (src/scripts/build-gtfs-lookup.ts)   *)
(*   - the find_connections tool                (src/index.ts)             *)
(* Each part has its own specification (SpecLookup, SpecCsv, ...); the     *)
(* variables of the other parts are parked at fixed values.                *)
(***************************************************************************)
EXTENDS Integers, Sequences, FiniteSets, TLC

VARIABLES
    \* ---- getGtfsLookup and its callers
    cachedLookup,   \* module-level cache: Undefined, Null or a parsed lookup
    file,           \* what is at DEFAULT_LOOKUP_PATH right now
    pc,             \* per caller: where its getGtfsLookup call stands
    buf,            \* per caller: what its readFile settled with
    ret,            \* per caller: what its last finished call resolved to
    fileReads,      \* number of readFile calls that delivered the file's text
    calls,          \* number of getGtfsLookup calls started
    \* ---- forEachCsvRow
    content,        \* the CSV text, a sequence of characters
    i,              \* loop index (1-based here, 0-based in the source)
    row,            \* fields of the row being built
    field,          \* characters of the field being built
    inQuotes,
    rowIndex,
    emitted,        \* the onRow calls made so far, in order
    rowStart,       \* ghost: where the raw text of the current row starts
    openAt,         \* ghost: position of the quote that last opened a quoted part
    csvpc,          \* "loop" or "done"
    \* ---- computeRisk
    riskConn,       \* the connection argument
    riskMetrics,    \* the metrics argument
    riskOut,        \* None before the call, Some(result) after it
    \* ---- buildDecisionSummary
    decConnections, \* the connections argument
    decContext,     \* the context argument
    decOut,         \* None before the call, Some(result) after it
    decOut2,        \* the result of a second call with the same arguments
    \* ---- buildReasons
    reasonsConn,    \* the connection argument
    reasonsMetrics, \* the metrics argument
    reasonsPrefs,   \* the preferences argument, None when undefined
    reasonsOut,     \* None before the call, Some(labels) after it
    \* ---- resolveLineInfo
    resLine,        \* the first argument: lineId, category, number, operator
    resLookup,      \* the lookup argument, None when null or undefined
    resOut,         \* None before the call, Some(LineInfo) after it
    \* ---- findConnections
    findResponse,   \* what the transport API answered
    findLookup,     \* what getGtfsLookup resolved to, None when null
    findOut,        \* None before the call, then the connections or "error"
    \* ---- buildMetrics
    metLegs,        \* the legs argument
    metOut,         \* None before the call, Some(metrics) after it
    \* ---- buildLookup
    bldInput,       \* what the build is pointed at and the three tables there
    bldpc,          \* where buildLookup stands
    bldFiles,       \* what readGtfsFiles resolved to, None before
    bldLookup,      \* the lookup object, None before it is built
    bldOutput,      \* the contents of the output file, None when not written
    bldExit,        \* the exit code, None while the process runs
    \* ---- find_connections
    toolConnections,\* result.connections, what findConnections resolved to
    toolArgs,       \* the arguments of the tool call
    toolOut         \* None before the call, then the text or the widget props

lookupVars == <<cachedLookup, file, pc, buf, ret, fileReads, calls>>
csvVars == <<content, i, row, field, inQuotes, rowIndex, emitted, rowStart, openAt, csvpc>>
riskVars == <<riskConn, riskMetrics, riskOut>>
decVars == <<decConnections, decContext, decOut, decOut2>>
reasonsVars == <<reasonsConn, reasonsMetrics, reasonsPrefs, reasonsOut>>
resVars == <<resLine, resLookup, resOut>>
findVars == <<findResponse, findLookup, findOut>>
metVars == <<metLegs, metOut>>
bldVars == <<bldInput, bldpc, bldFiles, bldLookup, bldOutput, bldExit>>
toolVars == <<toolConnections, toolArgs, toolOut>>
vars == <<lookupVars, csvVars, riskVars, decVars, reasonsVars, resVars, findVars, metVars, bldVars, toolVars>>

\* what each part leaves alone
notLookup == <<csvVars, riskVars, decVars, reasonsVars, resVars, findVars, metVars, bldVars, toolVars>>
notCsv == <<lookupVars, riskVars, decVars, reasonsVars, resVars, findVars, metVars, bldVars, toolVars>>
notRisk == <<lookupVars, csvVars, decVars, reasonsVars, resVars, findVars, metVars, bldVars, toolVars>>
notDec == <<lookupVars, csvVars, riskVars, reasonsVars, resVars, findVars, metVars, bldVars, toolVars>>
notReasons == <<lookupVars, csvVars, riskVars, decVars, resVars, findVars, metVars, bldVars, toolVars>>
notRes == <<lookupVars, csvVars, riskVars, decVars, reasonsVars, findVars, metVars, bldVars, toolVars>>
notFind == <<lookupVars, csvVars, riskVars, decVars, reasonsVars, resVars, metVars, bldVars, toolVars>>
notMet == <<lookupVars, csvVars, riskVars, decVars, reasonsVars, resVars, findVars, bldVars, toolVars>>
notBld == <<lookupVars, csvVars, riskVars, decVars, reasonsVars, resVars, findVars, metVars, toolVars>>
notTool == <<lookupVars, csvVars, riskVars, decVars, reasonsVars, resVars, findVars, metVars, bldVars>>

-----------------------------------------------------------------------------
(* Bounds of the model *)

NumCallers == 2
MaxCalls == 4
MaxCsvLen == 5
MaxExposure == 22
MaxMinTransfer == 10
MaxConns == 3
MaxLongConns == 27
MaxReasonTransfers == 2
MaxPlatformChanges == 2
MaxApiTransfers == 2
MaxApiConnections == 2
MaxLegs == 3
MaxRouteRows == 3
MaxAgencyRows == 3

-----------------------------------------------------------------------------
(***************************************************************************)
(* getGtfsLookup                                                           *)
(***************************************************************************)

Undefined == "undefined"
Null == "null"

Callers == 1..NumCallers

\* What can be at the lookup path: nothing, a file that cannot be read, a file
\* that is not JSON, or one of two JSON texts.
FileStates == {"missing", "unreadable", "garbage", "json1", "json2"}

\* existsSync(DEFAULT_LOOKUP_PATH)
existsSync(f) == f # "missing"

\* readFile settles with the text, or rejects
ReadFails(f) == f \in {"missing", "unreadable"}

\* JSON.parse(raw): throws on text that is not JSON
ParseThrows(raw) == raw \notin {"json1", "json2"}
JSONparse(raw) == IF raw = "json1" THEN "L1" ELSE "L2"

LookupInit ==
    /\ cachedLookup = Undefined
    /\ file \in FileStates
    /\ pc = [c \in Callers |-> "idle"]
    /\ buf = [c \in Callers |-> "none"]
    /\ ret = [c \in Callers |-> "none"]
    /\ fileReads = 0
    /\ calls = 0

\* The synchronous head of getGtfsLookup, up to the await.
Call(c) ==
    /\ pc[c] = "idle"
    /\ calls < MaxCalls
    /\ calls' = calls + 1
    /\ IF cachedLookup # Undefined
         THEN /\ ret' = [ret EXCEPT ![c] = cachedLookup]
              /\ UNCHANGED <<cachedLookup, pc>>
         ELSE IF ~existsSync(file)
           THEN /\ cachedLookup' = Null
                /\ ret' = [ret EXCEPT ![c] = Null]
                /\ UNCHANGED pc
           ELSE /\ pc' = [pc EXCEPT ![c] = "reading"]
                /\ UNCHANGED <<cachedLookup, ret>>
    /\ UNCHANGED <<file, buf, fileReads>>
    /\ UNCHANGED notLookup

\* The file system serves the readFile of caller c.
ReadIO(c) ==
    /\ pc[c] = "reading"
    /\ pc' = [pc EXCEPT ![c] = "resume"]
    /\ IF ReadFails(file)
         THEN /\ buf' = [buf EXCEPT ![c] = "error"]
              /\ UNCHANGED fileReads
         ELSE /\ buf' = [buf EXCEPT ![c] = file]
              /\ fileReads' = fileReads + 1
    /\ UNCHANGED <<cachedLookup, file, ret, calls>>
    /\ UNCHANGED notLookup

\* The continuation after the await: parse and store, or catch and store null.
Resume(c) ==
    /\ pc[c] = "resume"
    /\ pc' = [pc EXCEPT ![c] = "idle"]
    /\ buf' = [buf EXCEPT ![c] = "none"]
    /\ IF buf[c] = "error" \/ ParseThrows(buf[c])
         THEN /\ cachedLookup' = Null
              /\ ret' = [ret EXCEPT ![c] = Null]
         ELSE /\ cachedLookup' = JSONparse(buf[c])
              /\ ret' = [ret EXCEPT ![c] = JSONparse(buf[c])]
    /\ UNCHANGED <<file, fileReads, calls>>
    /\ UNCHANGED notLookup

\* The environment replaces, removes or damages the file.
FileChange ==
    /\ file' \in FileStates \ {file}
    /\ UNCHANGED <<cachedLookup, pc, buf, ret, fileReads, calls>>
    /\ UNCHANGED notLookup

LookupNext ==
    \/ \E c \in Callers : Call(c)
    \/ \E c \in Callers : ReadIO(c)
    \/ \E c \in Callers : Resume(c)
    \/ FileChange

LookupParked ==
    /\ cachedLookup = Undefined
    /\ file = "missing"
    /\ pc = [c \in Callers |-> "idle"]
    /\ buf = [c \in Callers |-> "none"]
    /\ ret = [c \in Callers |-> "none"]
    /\ fileReads = 0
    /\ calls = 0

-----------------------------------------------------------------------------
(***************************************************************************)
(* forEachCsvRow                                                           *)
(***************************************************************************)

QUOTE == "\""
COMMA == ","
LF == "\n"
CR == "\r"

CsvAlphabet == {"a", COMMA, QUOTE, LF, CR}

\* a,"b,c","d""e" CRLF f,g,h
CsvExample ==
    <<"a", COMMA, QUOTE, "b", COMMA, "c", QUOTE, COMMA,
      QUOTE, "d", QUOTE, QUOTE, "e", QUOTE, CR, LF,
      "f", COMMA, "g", COMMA, "h">>

CsvInputs ==
    UNION {[1..n -> CsvAlphabet] : n \in 0..MaxCsvLen} \cup {CsvExample}

CsvInit ==
    /\ content \in CsvInputs
    /\ i = 1
    /\ row = <<>>
    /\ field = <<>>
    /\ inQuotes = FALSE
    /\ rowIndex = 0
    /\ emitted = <<>>
    /\ rowStart = 1
    /\ openAt = 0
    /\ csvpc = "loop"

\* content[i + 1] === c, with the read past the end giving undefined
NextIs(s, p, c) == p + 1 <= Len(s) /\ s[p + 1] = c

\* How many characters a row separator at p takes: CR LF is taken as one.
BreakWidthNoSkip(s, p) == 1
BreakWidth(s, p) == IF s[p] = CR /\ NextIs(s, p, LF) THEN 2 ELSE 1

\* flushField: the row with the current field pushed
flushField(r, f) == Append(r, f)

\* flushRow on row r: the onRow calls after it. rawStart and rawLen are ghost
\* fields: where the raw text the row was built from starts, and its length.
flushRow(r, idx, out, rawStart, rawLen) ==
    IF Len(r) > 0
      THEN Append(out, [row |-> r, rowIndex |-> idx,
                        rawStart |-> rawStart, rawLen |-> rawLen])
      ELSE out

\* One iteration of the for loop.
CsvStep ==
    /\ csvpc = "loop"
    /\ i <= Len(content)
    /\ LET char == content[i] IN
       IF char = QUOTE THEN
            /\ IF inQuotes /\ NextIs(content, i, QUOTE)
                 THEN /\ field' = Append(field, QUOTE)
                      /\ i' = i + 2
                      /\ UNCHANGED <<inQuotes, openAt>>
                 ELSE /\ inQuotes' = ~inQuotes
                      /\ openAt' = IF inQuotes THEN openAt ELSE i
                      /\ i' = i + 1
                      /\ UNCHANGED field
            /\ UNCHANGED <<row, rowIndex, emitted, rowStart>>
       ELSE IF char = COMMA /\ ~inQuotes THEN
            /\ row' = flushField(row, field)
            /\ field' = <<>>
            /\ i' = i + 1
            /\ UNCHANGED <<inQuotes, rowIndex, emitted, rowStart, openAt>>
       ELSE IF char \in {LF, CR} /\ ~inQuotes THEN
            LET w == BreakWidth(content, i)
                r == flushField(row, field)
                out == flushRow(r, rowIndex, emitted, rowStart, i - rowStart)
            IN  /\ i' = i + w
                /\ field' = <<>>
                /\ emitted' = out
                /\ rowIndex' = rowIndex + (Len(out) - Len(emitted))
                /\ row' = <<>>
                /\ rowStart' = i + w
                /\ UNCHANGED <<inQuotes, openAt>>
       ELSE /\ field' = Append(field, char)
            /\ i' = i + 1
            /\ UNCHANGED <<row, inQuotes, rowIndex, emitted, rowStart, openAt>>
    /\ UNCHANGED <<content, csvpc>>
    /\ UNCHANGED notCsv

\* After the loop: the last row, when something is pending.
PendingAtEnd(f, r) == Len(f) > 0 \/ Len(r) > 0

CsvFinish ==
    /\ csvpc = "loop"
    /\ i > Len(content)
    /\ csvpc' = "done"
    /\ IF PendingAtEnd(field, row)
         THEN LET r == flushField(row, field)
                  out == flushRow(r, rowIndex, emitted, rowStart,
                                 Len(content) + 1 - rowStart)
              IN  /\ field' = <<>>
                  /\ emitted' = out
                  /\ rowIndex' = rowIndex + (Len(out) - Len(emitted))
                  /\ row' = <<>>
         ELSE UNCHANGED <<field, emitted, rowIndex, row>>
    /\ UNCHANGED <<content, i, inQuotes, rowStart, openAt>>
    /\ UNCHANGED notCsv

CsvNext == CsvStep \/ CsvFinish

CsvParked ==
    /\ content = <<>>
    /\ i = 1
    /\ row = <<>>
    /\ field = <<>>
    /\ inQuotes = FALSE
    /\ rowIndex = 0
    /\ emitted = <<>>
    /\ rowStart = 1
    /\ openAt = 0
    /\ csvpc = "done"

-----------------------------------------------------------------------------
(***************************************************************************)
(* Numbers. The source computes in floating point; the model computes the  *)
(* same expressions in exact rationals [num, den] (den > 0, reduced).      *)
(* An optional value is None or Some(v).                                   *)
(***************************************************************************)

None == <<>>
Some(v) == <<v>>
IsSome(o) == o # <<>>
Get(o) == o[1]

Abs(x) == IF x < 0 THEN -x ELSE x

RECURSIVE GCD(_, _)
GCD(a, b) == IF b = 0 THEN a ELSE GCD(b, a % b)

Q(n, d) ==
    LET g == GCD(Abs(n), d)
    IN  [num |-> n \div g, den |-> d \div g]
QInt(n) == [num |-> n, den |-> 1]
QAdd(a, b) ==
    LET g == GCD(a.den, b.den)
    IN  Q(a.num * (b.den \div g) + b.num * (a.den \div g), (a.den \div g) * b.den)
QNeg(a) == [num |-> -a.num, den |-> a.den]
QSub(a, b) == QAdd(a, QNeg(b))
QMul(a, b) ==
    LET g1 == GCD(Abs(a.num), b.den)
        g2 == GCD(Abs(b.num), a.den)
    IN  Q((a.num \div g1) * (b.num \div g2), (a.den \div g2) * (b.den \div g1))
QDiv(a, b) ==
    IF b.num > 0 THEN QMul(a, [num |-> b.den, den |-> b.num])
                 ELSE QMul(a, [num |-> -b.den, den |-> -b.num])

\* a/b < c/d for b, d > 0, by integer parts and remainders (no products)
RECURSIVE FracLt(_, _, _, _)
FracLt(a, b, c, d) ==
    LET qa == a \div b
        qc == c \div d
        ra == a - qa * b
        rc == c - qc * d
    IN  IF qa # qc THEN qa < qc
        ELSE IF rc = 0 THEN FALSE
        ELSE IF ra = 0 THEN TRUE
        ELSE FracLt(d, rc, b, ra)
QLt(a, b) == FracLt(a.num, a.den, b.num, b.den)
QLe(a, b) == ~QLt(b, a)
QMax(a, b) == IF QLe(a, b) THEN b ELSE a
QMin(a, b) == IF QLe(a, b) THEN a ELSE b

-----------------------------------------------------------------------------
(***************************************************************************)
(* computeRisk                                                             *)
(***************************************************************************)

\* clamp = Math.max(min, Math.min(max, value))
clampLowerOnly(value, min, max) == QMax(min, value)
clamp(value, min, max) == QMax(min, QMin(max, value))

\* connection.reliability?.score ?? connection.reliabilityScore ?? 0.7
reliabilityScoreOf(connection) ==
    IF IsSome(connection.reliability) /\ IsSome(Get(connection.reliability).score)
      THEN Get(Get(connection.reliability).score)
    ELSE IF IsSome(connection.reliabilityScore)
      THEN Get(connection.reliabilityScore)
    ELSE Q(7, 10)

\* connection.weather?.penalty ?? 0
weatherPenaltyOf(connection) ==
    IF IsSome(connection.weather) /\ IsSome(Get(connection.weather).penalty)
      THEN Get(Get(connection.weather).penalty)
      ELSE QInt(0)

tightTransferPenaltyInclusive(metrics) ==
    IF IsSome(metrics.minTransferMinutes) /\ Get(metrics.minTransferMinutes) <= 6
      THEN Q(12, 100)
    ELSE IF IsSome(metrics.minTransferMinutes) /\ Get(metrics.minTransferMinutes) <= 8
      THEN Q(6, 100)
    ELSE QInt(0)
tightTransferPenalty(metrics) ==
    IF IsSome(metrics.minTransferMinutes) /\ Get(metrics.minTransferMinutes) < 6
      THEN Q(12, 100)
    ELSE IF IsSome(metrics.minTransferMinutes) /\ Get(metrics.minTransferMinutes) < 8
      THEN Q(6, 100)
    ELSE QInt(0)

riskLevelStrict(score) ==
    IF QLt(Q(6, 10), score) THEN "high"
    ELSE IF QLt(Q(35, 100), score) THEN "medium"
    ELSE "low"
riskLevel(score) ==
    IF QLe(Q(6, 10), score) THEN "high"
    ELSE IF QLe(Q(35, 100), score) THEN "medium"
    ELSE "low"

computeRisk(connection, metrics) ==
    LET reliabilityScore == reliabilityScoreOf(connection)
        delayLikelihood == QSub(QInt(1), reliabilityScore)
        weatherPenalty == weatherPenaltyOf(connection)
        exposureFactor == clamp(Q(metrics.exposureMinutes, 20), QInt(0), QInt(1))
        weatherExposureRisk ==
            QMul(weatherPenalty, QAdd(Q(3, 10), QMul(Q(7, 10), exposureFactor)))
        score ==
            clamp(QAdd(QAdd(delayLikelihood, weatherExposureRisk),
                       tightTransferPenalty(metrics)),
                  QInt(0), QInt(1))
    IN  [score |-> score, level |-> riskLevel(score),
         \* ghost: the penalty that went into the score
         tightTransferPenalty |-> tightTransferPenalty(metrics)]

\* Inputs of computeRisk: reliabilities and penalties in hundredths, some
\* outside 0..1; metrics as buildMetrics produces them (the minimum transfer
\* wait is part of the exposure).
RiskReliabilities == {Q(r, 100) : r \in {0, 40, 65, 70, 72, 97, 100, 130}}
RiskPenalties == {Q(p, 100) : p \in {-50, 0, 50, 79, 100, 150}}

RiskConnections ==
    [reliability :
        {None} \cup {Some([score |-> Some(q)]) : q \in RiskReliabilities},
     reliabilityScore : {None, Some(Q(40, 100))},
     weather :
        {None} \cup {Some([penalty |-> Some(q)]) : q \in RiskPenalties}]

RiskMetricsInputs ==
    {m \in [exposureMinutes : 0..MaxExposure,
            minTransferMinutes :
                {None} \cup {Some(t) : t \in 0..MaxMinTransfer}] :
        IsSome(m.minTransferMinutes) =>
            Get(m.minTransferMinutes) <= m.exposureMinutes}

RiskInit ==
    /\ riskConn \in RiskConnections
    /\ riskMetrics \in RiskMetricsInputs
    /\ riskOut = None

RiskCall ==
    /\ riskOut = None
    /\ riskOut' = Some(computeRisk(riskConn, riskMetrics))
    /\ UNCHANGED <<riskConn, riskMetrics>>
    /\ UNCHANGED notRisk

RiskNext == RiskCall

RiskParked ==
    /\ riskConn = [reliability |-> None, reliabilityScore |-> None, weather |-> None]
    /\ riskMetrics = [exposureMinutes |-> 0, minTransferMinutes |-> None]
    /\ riskOut = None

-----------------------------------------------------------------------------
(***************************************************************************)
(* buildMetrics                                                            *)
(*                                                                         *)
(* A timestamp is None (missing or empty), or Some([ok, t]): ok is FALSE    *)
(* for a string Date cannot parse, t is the time in half minutes.          *)
(***************************************************************************)

IntMax(a, b) == IF a >= b THEN a ELSE b
IntMin(a, b) == IF a <= b THEN a ELSE b

RECURSIVE SeqSum(_)
SeqSum(q) == IF q = <<>> THEN 0 ELSE Head(q) + SeqSum(Tail(q))
RECURSIVE SeqMin(_)
SeqMin(q) == IF Len(q) = 1 THEN q[1] ELSE IntMin(Head(q), SeqMin(Tail(q)))
RECURSIVE SeqMax(_)
SeqMax(q) == IF Len(q) = 1 THEN q[1] ELSE IntMax(Head(q), SeqMax(Tail(q)))

\* Math.round(d / 2) for d in half minutes: halves round up
RoundHalves(d) == (d + 1) \div 2

minutesBetweenUnfloored(startISO, endISO) ==
    IF ~IsSome(startISO) \/ ~IsSome(endISO) THEN 0
    ELSE IF ~Get(startISO).ok \/ ~Get(endISO).ok THEN 0
    ELSE RoundHalves(Get(endISO).t - Get(startISO).t)
minutesBetween(startISO, endISO) ==
    IF ~IsSome(startISO) \/ ~IsSome(endISO) THEN 0
    ELSE IF ~Get(startISO).ok \/ ~Get(endISO).ok THEN 0
    ELSE IntMax(0, RoundHalves(Get(endISO).t - Get(startISO).t))

\* stop.timeActual || stop.timePlanned
plannedOnly(stop) == stop.timePlanned
actualOrPlanned(stop) ==
    IF IsSome(stop.timeActual) THEN stop.timeActual ELSE stop.timePlanned

\* q with x appended unless it is in q already
AddUnique(q, x) == IF \E k \in 1..Len(q) : q[k] = x THEN q ELSE Append(q, x)

RECURSIVE delayAlertsOf(_)
delayAlertsOf(rideLegs) ==
    IF rideLegs = <<>> THEN <<>>
    ELSE LET front == SubSeq(rideLegs, 1, Len(rideLegs) - 1)
             leg == rideLegs[Len(rideLegs)]
         IN  IF IsSome(leg.delayMinutes) /\ Get(leg.delayMinutes) > 0
               THEN AddUnique(delayAlertsOf(front),
                              (IF IsSome(leg.line) /\ Get(leg.line) # ""
                                 THEN Get(leg.line) ELSE "Delay")
                              \o " +" \o ToString(Get(leg.delayMinutes)) \o " min")
               ELSE delayAlertsOf(front)

addPlatformChange(q, station, platform) ==
    IF ~IsSome(platform) \/ ~Get(platform).changed THEN q
    ELSE AddUnique(q, station \o " (Pl. " \o Get(platform).text \o ")")

RECURSIVE platformChangesOf(_)
platformChangesOf(legs) ==
    IF legs = <<>> THEN <<>>
    ELSE LET front == SubSeq(legs, 1, Len(legs) - 1)
             leg == legs[Len(legs)]
         IN  addPlatformChange(
                 addPlatformChange(platformChangesOf(front),
                                   leg.from.name, leg.from.platform),
                 leg.to.name, leg.to.platform)

buildMetrics(legs) ==
    LET walkLegs == SelectSeq(legs, LAMBDA leg : leg.type = "walk")
        rideLegs == SelectSeq(legs, LAMBDA leg : leg.type = "ride")
        walkingMinutes ==
            SeqSum([k \in 1..Len(walkLegs) |->
                       minutesBetween(actualOrPlanned(walkLegs[k].from),
                                      actualOrPlanned(walkLegs[k].to))])
        transferWaitMinutesList ==
            [k \in 1..(Len(rideLegs) - 1) |->
                minutesBetween(actualOrPlanned(rideLegs[k].to),
                               actualOrPlanned(rideLegs[k + 1].from))]
        transferWaitMinutes == SeqSum(transferWaitMinutesList)
        minTransferMinutes ==
            IF Len(transferWaitMinutesList) > 0
              THEN Some(SeqMin(transferWaitMinutesList)) ELSE None
        hits == {k \in 1..Len(transferWaitMinutesList) :
                    IsSome(minTransferMinutes)
                    /\ transferWaitMinutesList[k] = Get(minTransferMinutes)}
        transferStation ==
            IF hits # {}
              THEN Some(rideLegs[CHOOSE k \in hits : \A j \in hits : k <= j].to.name)
              ELSE None
        delayed == SelectSeq(rideLegs,
                       LAMBDA leg : IsSome(leg.delayMinutes) /\ Get(leg.delayMinutes) > 0)
        delayMinutesTotal ==
            SeqSum([k \in 1..Len(delayed) |-> Get(delayed[k].delayMinutes)])
    IN  [walkingMinutes |-> walkingMinutes,
         transferWaitMinutes |-> transferWaitMinutes,
         transferWaitMinutesList |-> transferWaitMinutesList,
         minTransferMinutes |-> minTransferMinutes,
         transferStation |-> transferStation,
         exposureMinutes |-> walkingMinutes + transferWaitMinutes,
         delayMinutesTotal |-> delayMinutesTotal,
         delayAlerts |-> delayAlertsOf(rideLegs),
         platformChanges |-> platformChangesOf(legs)]

-----------------------------------------------------------------------------
(***************************************************************************)
(* buildReasons                                                            *)
(***************************************************************************)

\* addReason: an undefined or empty label and a label already present are
\* dropped
addReason(reasons, label, priority) ==
    IF ~IsSome(label) \/ Get(label) = "" THEN reasons
    ELSE IF \E k \in 1..Len(reasons) : reasons[k].label = Get(label) THEN reasons
    ELSE Append(reasons, [label |-> Get(label), priority |-> priority])

getWeatherConditionLabel(weather) ==
    IF ~IsSome(weather) \/ Len(Get(weather).samples) = 0 THEN None
    ELSE LET sample == Get(weather).samples[1]
         IN  IF sample.snowfall > 0 THEN Some("snow")
             ELSE IF sample.precipitation > 0 THEN Some("rain")
             ELSE IF sample.windGusts > 50 THEN Some("wind")
             ELSE None

\* `${n} ${word}${n > 1 ? "s" : ""}`
countLabel(n, word) ==
    ToString(n) \o " " \o word \o (IF n > 1 THEN "s" ELSE "")

\* reasons.sort((a, b) => a.priority - b.priority), a stable sort
RECURSIVE sortByPriority(_)
sortByPriority(reasons) ==
    IF reasons = <<>> THEN <<>>
    ELSE LET front == sortByPriority(SubSeq(reasons, 1, Len(reasons) - 1))
             x == reasons[Len(reasons)]
             n == Cardinality({k \in 1..Len(front) : front[k].priority <= x.priority})
         IN  SubSeq(front, 1, n) \o <<x>> \o SubSeq(front, n + 1, Len(front))

\* .slice(0, 3)
sliceFour(q) == SubSeq(q, 1, IntMin(4, Len(q)))
sliceThree(q) == SubSeq(q, 1, IntMin(3, Len(q)))

buildReasons(connection, metrics, preferences) ==
    LET r0 == <<>>
        r1 == IF IsSome(metrics.minTransferMinutes) /\ Get(metrics.minTransferMinutes) < 8
                THEN LET station ==
                             IF IsSome(metrics.transferStation)
                                /\ Get(metrics.transferStation) # ""
                               THEN " at " \o Get(metrics.transferStation) ELSE ""
                     IN  addReason(r0, Some(ToString(Get(metrics.minTransferMinutes))
                                            \o " min transfer" \o station), 1)
                ELSE r0
        r2 == IF metrics.delayMinutesTotal > 0
                THEN addReason(r1, Some("current delay +"
                                        \o ToString(metrics.delayMinutesTotal) \o " min"), 2)
                ELSE r1
        weatherCondition == getWeatherConditionLabel(connection.weather)
        r3 == IF IsSome(weatherCondition) /\ metrics.exposureMinutes > 0
                THEN addReason(r2, Some(Get(weatherCondition) \o " + "
                                        \o ToString(metrics.exposureMinutes)
                                        \o " min exposed"), 3)
              ELSE IF IsSome(connection.weather) /\ Len(Get(connection.weather).reasons) > 0
                THEN addReason(r2, Some(Get(connection.weather).reasons[1].label), 4)
              ELSE r2
        walkingThreshold ==
            IF IsSome(preferences) /\ Get(preferences).preferLowWalking THEN 1 ELSE 6
        r5 == IF metrics.walkingMinutes >= walkingThreshold
                THEN addReason(r3, Some(ToString(metrics.walkingMinutes) \o " min walk"), 5)
                ELSE r3
        r6 == IF connection.transfersCount > 0
                THEN addReason(r5, Some(countLabel(connection.transfersCount, "transfer")), 6)
                ELSE r5
        r7 == IF Len(metrics.platformChanges) > 0
                THEN addReason(r6, Some(countLabel(Len(metrics.platformChanges),
                                                   "platform change")), 7)
                ELSE r6
        r8 == IF /\ IsSome(connection.reliability)
                 /\ \E k \in 1..Len(Get(connection.reliability).reasons) :
                       Get(connection.reliability).reasons[k].code = "peak_time"
                THEN addReason(r7, Some("rush hour"), 8)
                ELSE r7
        kept == sliceThree(sortByPriority(r8))
    IN  [k \in 1..Len(kept) |-> kept[k].label]

-----------------------------------------------------------------------------
(***************************************************************************)
(* buildDecisionSummary                                                    *)
(***************************************************************************)

OPTION_LABELS ==
    <<"A", "B", "C", "D", "E", "F", "G", "H", "I", "J", "K", "L", "M",
      "N", "O", "P", "Q", "R", "S", "T", "U", "V", "W", "X", "Y", "Z">>

\* OPTION_LABELS[index] ? `Option ${OPTION_LABELS[index]}` : `Option ${index + 1}`
optionLabel(index) ==
    IF index < Len(OPTION_LABELS)
      THEN "Option " \o OPTION_LABELS[index + 1]
      ELSE "Option " \o ToString(index + 1)

normalizeFromZero(value, min, max) ==
    IF QLe(max, min) THEN QInt(0)
    ELSE clamp(QDiv(value, max), QInt(0), QInt(1))
normalize(value, min, max) ==
    IF QLe(max, min) THEN QInt(0)
    ELSE clamp(QDiv(QSub(value, min), QSub(max, min)), QInt(0), QInt(1))

isWetWeather(weather) ==
    /\ IsSome(weather)
    /\ \E k \in 1..Len(Get(weather).samples) :
          \/ Get(weather).samples[k].precipitation > 0
          \/ Get(weather).samples[k].snowfall > 0

\* Math.max(0, Math.floor(maxTransfers)); the preference is given in halves
transferLimit(maxTransfersHalves) == IntMax(0, maxTransfersHalves \div 2)

\* computed.filter(item => item.connection.transfersCount <= maxTransfers)
withinLimitStrict(computed, limit) ==
    SelectSeq(computed, LAMBDA item : item.connection.transfersCount < limit)
withinLimit(computed, limit) ==
    SelectSeq(computed, LAMBDA item : item.connection.transfersCount <= limit)

\* Array.prototype.sort with (a, b) => a.decisionScore - b.decisionScore:
\* a stable sort, so an entry goes behind every entry that is not greater.
RECURSIVE sortByScoreTiesReversed(_)
sortByScoreTiesReversed(entries) ==
    IF entries = <<>> THEN <<>>
    ELSE LET front == sortByScoreTiesReversed(SubSeq(entries, 1, Len(entries) - 1))
             x == entries[Len(entries)]
             n == Cardinality({k \in 1..Len(front) :
                                  QLt(front[k].decisionScore, x.decisionScore)})
         IN  SubSeq(front, 1, n) \o <<x>> \o SubSeq(front, n + 1, Len(front))
RECURSIVE sortByScoreDescending(_)
sortByScoreDescending(entries) ==
    IF entries = <<>> THEN <<>>
    ELSE LET front == sortByScoreDescending(SubSeq(entries, 1, Len(entries) - 1))
             x == entries[Len(entries)]
             n == Cardinality({k \in 1..Len(front) :
                                  QLe(x.decisionScore, front[k].decisionScore)})
         IN  SubSeq(front, 1, n) \o <<x>> \o SubSeq(front, n + 1, Len(front))
RECURSIVE sortByScore(_)
sortByScore(entries) ==
    IF entries = <<>> THEN <<>>
    ELSE LET front == sortByScore(SubSeq(entries, 1, Len(entries) - 1))
             x == entries[Len(entries)]
             n == Cardinality({k \in 1..Len(front) :
                                  QLe(front[k].decisionScore, x.decisionScore)})
         IN  SubSeq(front, 1, n) \o <<x>> \o SubSeq(front, n + 1, Len(front))

\* ---- the narrative text

TwoDigits(n) == IF n < 10 THEN "0" \o ToString(n) ELSE ToString(n)

\* toLocaleTimeString("de-CH", {hour: "2-digit", minute: "2-digit"}): the
\* time of day, seconds dropped; "--:--" for a missing or invalid timestamp
formatTime(iso) ==
    IF ~IsSome(iso) \/ ~Get(iso).ok THEN "--:--"
    ELSE LET minutes == Get(iso).t \div 2
         IN  TwoDigits((minutes \div 60) % 24) \o ":" \o TwoDigits(minutes % 60)

\* an invalid timestamp is returned as it is
subtractMinutes(iso, minutes) ==
    IF ~IsSome(iso) \/ ~Get(iso).ok THEN iso
    ELSE Some([ok |-> TRUE, t |-> Get(iso).t - 2 * minutes])

\* a score in 0..1 with two decimals
toFixed2(q) ==
    LET hundredths == (200 * q.num + q.den) \div (2 * q.den)
    IN  ToString(hundredths \div 100) \o "." \o TwoDigits(hundredths % 100)

\* `${n}` for a number given in halves
halvesText(h) ==
    (IF h < 0 THEN "-" ELSE "") \o ToString(Abs(h) \div 2)
    \o (IF Abs(h) % 2 = 1 THEN ".5" ELSE "")

RECURSIVE join(_, _)
join(parts, separator) ==
    IF parts = <<>> THEN ""
    ELSE IF Len(parts) = 1 THEN parts[1]
    ELSE parts[1] \o separator \o join(Tail(parts), separator)

formatOptionLine(option, context) ==
    LET transferLabel ==
            IF option.transfersCount = 0 THEN "direct"
            ELSE countLabel(option.transfersCount, "transfer")
        connectionPart ==
            IF IsSome(option.minTransferMinutes) /\ option.transfersCount > 0
              THEN ", " \o ToString(Get(option.minTransferMinutes)) \o " min connection"
              ELSE ""
        reasons ==
            IF Len(option.reasons) > 0
              THEN " (" \o join(option.reasons, ", ") \o ")" ELSE ""
        bufferNote ==
            IF /\ context.isArrivalTime
               /\ IsSome(option.arrivalBufferMinutes)
               /\ Get(option.arrivalBufferMinutes) > 0
              THEN " Buffer: " \o ToString(Get(option.arrivalBufferMinutes)) \o " min."
              ELSE ""
        leaveByNote ==
            IF ~context.isArrivalTime /\ IsSome(option.suggestedLeaveByTime)
              THEN " Leave by " \o formatTime(option.suggestedLeaveByTime) \o "."
              ELSE ""
    IN  option.label \o ": " \o formatTime(option.departureTime) \o " -> "
        \o formatTime(option.arrivalTime) \o " (" \o ToString(option.durationMinutes)
        \o " min), " \o transferLabel \o connectionPart \o ". Risk: " \o option.riskLevel
        \o " (" \o toFixed2(option.riskScore) \o ")" \o reasons \o "."
        \o bufferNote \o leaveByNote

noConnectionsText(context) ==
    "No connections found from " \o context.from \o " to " \o context.to \o "."

buildSummaryText(options, context, constraintNote) ==
    IF Len(options) = 0 THEN noConnectionsText(context)
    ELSE
    LET truthy(minutes) == IsSome(minutes) /\ Get(minutes) # 0
        pref == context.preferences
        timeParts ==
            IF context.isArrivalTime
              THEN <<"Arrive by " \o formatTime(context.requestedTimeISO)>>
                   \o (IF truthy(context.arrivalBufferMinutes)
                         THEN <<"buffer " \o ToString(Get(context.arrivalBufferMinutes))
                                \o " min">>
                         ELSE <<>>)
              ELSE <<"Depart around " \o formatTime(context.requestedTimeISO)>>
                   \o (IF truthy(context.departureBufferMinutes)
                         THEN <<"leave " \o ToString(Get(context.departureBufferMinutes))
                                \o " min early">>
                         ELSE <<>>)
        constraintParts ==
            timeParts
            \o (IF IsSome(pref.maxTransfers)
                  THEN <<"max " \o halvesText(Get(pref.maxTransfers)) \o " transfer"
                         \o (IF Get(pref.maxTransfers) = 2 THEN "" ELSE "s")>>
                  ELSE <<>>)
            \o (IF pref.preferLowWalking THEN <<"prefer low walking">> ELSE <<>>)
            \o (IF pref.minimizeOutdoorIfRaining
                  THEN <<"minimize outdoor if raining">> ELSE <<>>)
        optionLines ==
            [k \in 1..IntMin(3, Len(options)) |->
                formatOptionLine(
                    [options[k] EXCEPT
                        !.label = @ \o (IF k = 1 THEN " (best)" ELSE "")],
                    context)]
        topOption == options[1]
        departureLines ==
            IF context.isArrivalTime
              THEN <<"Suggested departure: " \o formatTime(topOption.departureTime)
                     \o (IF truthy(topOption.arrivalBufferMinutes)
                           THEN ", buffer " \o ToString(Get(topOption.arrivalBufferMinutes))
                                \o " min"
                           ELSE "")
                     \o ".">>
            ELSE IF truthy(context.departureBufferMinutes)
                    /\ IsSome(topOption.suggestedLeaveByTime)
              THEN <<"Suggested departure: leave by "
                     \o formatTime(topOption.suggestedLeaveByTime) \o ".">>
            ELSE <<>>
        delays == topOption.alerts.delays
        changes == topOption.alerts.platformChanges
        alertParts ==
            (IF Len(delays) > 0
               THEN <<"delays: "
                      \o join(delays, ", ")>>
               ELSE <<>>)
            \o (IF Len(changes) > 0
                  THEN <<"platform changes: "
                         \o join(changes, ", ")>>
                  ELSE <<>>)
        alertLines ==
            IF Len(alertParts) > 0
              THEN <<"Live alerts: " \o join(alertParts, "; ") \o ".">> ELSE <<>>
    IN  join(<<join(constraintParts, "; ")>>
             \o (IF IsSome(constraintNote) THEN <<Get(constraintNote)>> ELSE <<>>)
             \o optionLines \o departureLines \o alertLines,
             "\n")

\* One entry of optionsWithScore. index is the 0-based position in filtered;
\* inputPos is a ghost field, the entry's position in the connections argument.
optionWithScore(item, index, stats, context) ==
    LET connection == item.connection
        metrics == item.metrics
        risk == computeRisk(connection, metrics)
        durationScore == normalize(QInt(connection.durationMinutes),
                                   QInt(stats.minDuration), QInt(stats.maxDuration))
        transferScore == normalize(QInt(connection.transfersCount),
                                   QInt(0), QInt(stats.maxTransfersObserved))
        walkingScore == normalize(QInt(metrics.walkingMinutes),
                                  QInt(0), QInt(stats.maxWalking))
        exposureScore == normalize(QInt(metrics.exposureMinutes),
                                   QInt(0), QInt(stats.maxExposure))
        isWet == isWetWeather(connection.weather)
        wRisk == Q(55, 100)
        wDuration == Q(2, 10)
        wTransfer == Q(1, 10)
        wWalking == IF context.preferences.preferLowWalking THEN Q(1, 10) ELSE QInt(0)
        wExposure == IF context.preferences.minimizeOutdoorIfRaining /\ isWet
                       THEN Q(1, 10) ELSE QInt(0)
        weightSum == QAdd(QAdd(QAdd(QAdd(wRisk, wDuration), wTransfer), wWalking), wExposure)
        decisionScore ==
            QDiv(QAdd(QAdd(QAdd(QAdd(QMul(risk.score, wRisk),
                                     QMul(durationScore, wDuration)),
                                QMul(transferScore, wTransfer)),
                           QMul(walkingScore, wWalking)),
                      QMul(exposureScore, wExposure)),
                 weightSum)
        arrivalBufferMinutes ==
            IF context.isArrivalTime /\ IsSome(context.requestedTimeISO)
              THEN Some(minutesBetween(connection.arrivalTime, context.requestedTimeISO))
              ELSE None
        suggestedLeaveByTime ==
            IF /\ ~context.isArrivalTime
               /\ IsSome(context.departureBufferMinutes)
               /\ Get(context.departureBufferMinutes) # 0
              THEN subtractMinutes(connection.departureTime,
                                   Get(context.departureBufferMinutes))
              ELSE None
    IN  [option |->
            [id |-> connection.id,
             rank |-> index + 1,
             label |-> optionLabel(index),
             departureTime |-> connection.departureTime,
             arrivalTime |-> connection.arrivalTime,
             durationMinutes |-> connection.durationMinutes,
             transfersCount |-> connection.transfersCount,
             minTransferMinutes |-> metrics.minTransferMinutes,
             walkingMinutes |-> metrics.walkingMinutes,
             transferWaitMinutes |-> metrics.transferWaitMinutes,
             exposureMinutes |-> metrics.exposureMinutes,
             riskScore |-> risk.score,
             riskLevel |-> risk.level,
             reasons |-> buildReasons(connection, metrics, Some(context.preferences)),
             suggestedDepartureTime |-> connection.departureTime,
             suggestedLeaveByTime |-> suggestedLeaveByTime,
             arrivalBufferMinutes |-> arrivalBufferMinutes,
             alerts |-> [delays |-> metrics.delayAlerts,
                         platformChanges |-> metrics.platformChanges]],
         decisionScore |-> decisionScore,
         inputPos |-> item.inputPos]

\* The result, with the sorted optionsWithScore kept beside it (ranked) so
\* that the decision scores and the input positions can be read.
\* the options in their final order, relabelled, and the narrative text
summaryOfRanked(optionsWithScore, constraintNote, context) ==
    LET options == [k \in 1..Len(optionsWithScore) |->
                       [optionsWithScore[k].option EXCEPT
                           !.rank = k, !.label = optionLabel(k - 1)]]
    IN  [options |-> options,
         constraintNote |-> constraintNote,
         recommendedOptionId |-> Some(options[1].id),
         summaryText |-> buildSummaryText(options, context, constraintNote),
         ranked |-> optionsWithScore]

\* the statistics of the connections kept, their scores and the sort
summaryOfFiltered(filtered, constraintNote, context) ==
    LET durations == [k \in 1..Len(filtered) |-> filtered[k].connection.durationMinutes]
        transfers == [k \in 1..Len(filtered) |-> filtered[k].connection.transfersCount]
        walking == [k \in 1..Len(filtered) |-> filtered[k].metrics.walkingMinutes]
        exposure == [k \in 1..Len(filtered) |-> filtered[k].metrics.exposureMinutes]
        stats == [minDuration |-> SeqMin(durations),
                  maxDuration |-> SeqMax(durations),
                  maxTransfersObserved |-> IntMax(1, SeqMax(transfers)),
                  maxWalking |-> IntMax(1, SeqMax(walking)),
                  maxExposure |-> IntMax(1, SeqMax(exposure))]
    IN  summaryOfRanked(
            sortByScore([k \in 1..Len(filtered) |->
                            optionWithScore(filtered[k], k - 1, stats, context)]),
            constraintNote, context)

\* the transfer limit: the connections within it, or all of them and a note
summaryOfComputed(computed, context) ==
    LET pref == context.preferences.maxTransfers
        maxTransfers == IF IsSome(pref) THEN Some(transferLimit(Get(pref))) ELSE None
        matching == IF IsSome(maxTransfers)
                      THEN withinLimit(computed, Get(maxTransfers)) ELSE computed
        relaxed == IsSome(maxTransfers) /\ Len(matching) = 0
        filtered == IF relaxed THEN computed ELSE matching
        constraintNote ==
            IF relaxed
              THEN Some("No routes within " \o ToString(Get(maxTransfers)) \o " transfer"
                        \o (IF Get(maxTransfers) = 1 THEN "" ELSE "s")
                        \o "; showing closest matches.")
              ELSE None
    IN  summaryOfFiltered(filtered, constraintNote, context)

buildDecisionSummary(connections, context) ==
    IF Len(connections) = 0
      THEN [options |-> <<>>, constraintNote |-> None,
            recommendedOptionId |-> None,
            summaryText |-> noConnectionsText(context),
            ranked |-> <<>>]
    ELSE summaryOfComputed([k \in 1..Len(connections) |->
                               [connection |-> connections[k],
                                metrics |-> buildMetrics(connections[k].legs),
                                inputPos |-> k]],
                           context)

\* ---- inputs

At(m) == Some([ok |-> TRUE, t |-> 2 * m])
Stop(name, m) ==
    [name |-> name, timePlanned |-> At(m), timeActual |-> None, platform |-> None]
RideLeg(from, to, line) ==
    [type |-> "ride", from |-> from, to |-> to,
     line |-> Some(line), delayMinutes |-> None]
WalkLeg(from, to) ==
    [type |-> "walk", from |-> from, to |-> to,
     line |-> None, delayMinutes |-> None]

Reliability(hundredths) ==
    Some([score |-> Some(Q(hundredths, 100)),
          reasons |-> IF hundredths < 90 THEN <<[code |-> "peak_time"]>> ELSE <<>>])
Dry == None
Wet(penaltyHundredths) ==
    Some([penalty |-> Some(Q(penaltyHundredths, 100)),
          samples |-> <<[precipitation |-> 1, snowfall |-> 0, windGusts |-> 20]>>,
          reasons |-> <<[label |-> "rain on the way"]>>])

\* departure and arrival of a connection are those of its first and last leg
Connection(id, duration, transfers, legs, reliability, weather) ==
    [id |-> id,
     departureTime |-> legs[1].from.timePlanned,
     arrivalTime |-> legs[Len(legs)].to.timePlanned,
     durationMinutes |-> duration, transfersCount |-> transfers,
     legs |-> legs, reliability |-> reliability, reliabilityScore |-> None,
     weather |-> weather]

\* The connections the lists are drawn from: two direct ones that differ in
\* their id only, one with a tight transfer, two with two transfers (one of
\* them wet, with a walk).
ConnPool ==
    << Connection("direct-a", 60, 0,
           <<RideLeg(Stop("A", 0), Stop("B", 60), "IC1")>>,
           Reliability(80), Dry),
       Connection("direct-b", 60, 0,
           <<RideLeg(Stop("A", 10), Stop("B", 70), "IC1")>>,
           Reliability(80), Dry),
       Connection("tight", 50, 1,
           <<RideLeg(Stop("A", 0), Stop("C", 20), "S1"),
             RideLeg(Stop("C", 25), Stop("B", 50), "S2")>>,
           Reliability(80), Dry),
       Connection("wet-walk", 40, 2,
           <<RideLeg(Stop("A", 0), Stop("C", 10), "S1"),
             WalkLeg(Stop("C", 10), Stop("D", 18)),
             RideLeg(Stop("D", 20), Stop("E", 28), "B7"),
             RideLeg(Stop("E", 38), Stop("B", 40), "S3")>>,
           None, Wet(50)),
       Connection("two", 70, 2,
           <<RideLeg(Stop("A", 0), Stop("C", 20), "S1"),
             RideLeg(Stop("C", 32), Stop("E", 50), "S4"),
             RideLeg(Stop("E", 58), Stop("B", 70), "S3")>>,
           Reliability(90), Dry) >>

\* a list longer than the alphabet, cycling through the pool
LongList(n, stride) ==
    [k \in 1..n |-> ConnPool[((k * stride) % Len(ConnPool)) + 1]]

\* a forecast whose first sample is dry and whose second sample has rain
WetLater(penaltyHundredths) ==
    Some([penalty |-> Some(Q(penaltyHundredths, 100)),
          samples |-> <<[precipitation |-> 0, snowfall |-> 0, windGusts |-> 20],
                        [precipitation |-> 2, snowfall |-> 0, windGusts |-> 20]>>,
          reasons |-> <<[label |-> "rain on the way"]>>])

\* a forecast of the same penalty without rain or snow: gusts of 60 km/h
Windy(penaltyHundredths) ==
    Some([penalty |-> Some(Q(penaltyHundredths, 100)),
          samples |-> <<[precipitation |-> 0, snowfall |-> 0, windGusts |-> 60]>>,
          reasons |-> <<[label |-> "strong gusts"]>>])

\* The first direct connection and three twins of it that differ in the id
\* and the forecast only (rain from the first sample on, rain in the second
\* sample only, wind without rain), and the wet connection with a walk.
WeatherPool ==
    << ConnPool[1],
       Connection("direct-wet", 60, 0,
           <<RideLeg(Stop("A", 0), Stop("B", 60), "IC1")>>,
           Reliability(80), Wet(50)),
       Connection("direct-rain-later", 60, 0,
           <<RideLeg(Stop("A", 0), Stop("B", 60), "IC1")>>,
           Reliability(80), WetLater(50)),
       Connection("direct-windy", 60, 0,
           <<RideLeg(Stop("A", 0), Stop("B", 60), "IC1")>>,
           Reliability(80), Windy(50)),
       ConnPool[4] >>

WeatherLists ==
    UNION {[1..n -> {WeatherPool[k] : k \in 1..Len(WeatherPool)}] : n \in 1..2}

DecConnectionLists ==
    UNION {[1..n -> {ConnPool[k] : k \in 1..Len(ConnPool)}] : n \in 0..MaxConns}
    \cup {LongList(n, stride) :
            n \in {Len(OPTION_LABELS), MaxLongConns}, stride \in {1, 2}}
    \cup WeatherLists

\* maxTransfers is absent or a number given in halves: -1, -0.5, 0, ..., 2.5
DecPreferences ==
    [maxTransfers : {None} \cup {Some(h) : h \in -2..5},
     preferLowWalking : BOOLEAN,
     minimizeOutdoorIfRaining : BOOLEAN]

\* arrive by 01:05:30 with a buffer, under every preference; depart around
\* 00:00 with and without a buffer, without a transfer limit
DecModes ==
    {[arrive |-> TRUE, time |-> Some([ok |-> TRUE, t |-> 131]),
      arrivalBuffer |-> Some(5), departureBuffer |-> None],
     [arrive |-> FALSE, time |-> At(0),
      arrivalBuffer |-> None, departureBuffer |-> Some(10)],
     [arrive |-> FALSE, time |-> At(0),
      arrivalBuffer |-> None, departureBuffer |-> Some(0)]}

DecContexts ==
    {[from |-> "A", to |-> "B", requestedTimeISO |-> mp[1].time,
      isArrivalTime |-> mp[1].arrive,
      arrivalBufferMinutes |-> mp[1].arrivalBuffer,
      departureBufferMinutes |-> mp[1].departureBuffer,
      preferences |-> mp[2]] :
        mp \in {x \in DecModes \X DecPreferences :
                   x[1].arrive \/ x[2].maxTransfers = None}}

DecInit ==
    /\ decConnections \in DecConnectionLists
    /\ decContext \in DecContexts
    /\ decOut = None
    /\ decOut2 = None

\* The caller's connections array after a call. connections.map (line 395),
\* computed.filter (line 407) and filtered.map (line 429) each build a new
\* array, so the in-place sort of line 500 moves the entries of
\* optionsWithScore only.
connectionsAfterSortInPlace(connections, ranked) ==
    IF Len(ranked) = Len(connections)
      THEN [k \in 1..Len(connections) |-> connections[ranked[k].inputPos]]
      ELSE connections
connectionsAfter(connections, ranked) == connections

DecCall ==
    /\ decOut = None
    /\ LET result == buildDecisionSummary(decConnections, decContext)
       IN  /\ decOut' = Some(result)
           /\ decConnections' = connectionsAfter(decConnections, result.ranked)
    /\ UNCHANGED <<decContext, decOut2>>
    /\ UNCHANGED notDec

\* the same caller calls again with the array and the context it holds
DecCallAgain ==
    /\ IsSome(decOut)
    /\ decOut2 = None
    /\ LET result == buildDecisionSummary(decConnections, decContext)
       IN  /\ decOut2' = Some(result)
           /\ decConnections' = connectionsAfter(decConnections, result.ranked)
    /\ UNCHANGED <<decContext, decOut>>
    /\ UNCHANGED notDec

DecNext == DecCall \/ DecCallAgain

DecParked ==
    /\ decConnections = <<>>
    /\ decContext = [from |-> "A", to |-> "B", requestedTimeISO |-> At(0),
                     isArrivalTime |-> FALSE,
                     arrivalBufferMinutes |-> None, departureBufferMinutes |-> None,
                     preferences |-> [maxTransfers |-> None,
                                      preferLowWalking |-> FALSE,
                                      minimizeOutdoorIfRaining |-> FALSE]]
    /\ decOut = None
    /\ decOut2 = None

-----------------------------------------------------------------------------
(* buildReasons: its arguments *)

ReasonSamples ==
    {<<>>,
     <<[precipitation |-> 0, snowfall |-> 2, windGusts |-> 0]>>,
     <<[precipitation |-> 1, snowfall |-> 0, windGusts |-> 60]>>,
     <<[precipitation |-> 0, snowfall |-> 0, windGusts |-> 60]>>,
     <<[precipitation |-> 0, snowfall |-> 0, windGusts |-> 50]>>}

\* the labels of connection.weather.reasons: none, an ordinary one, an empty
\* one and two that read like labels buildReasons builds itself
ReasonWeatherReasons ==
    {<<>>, <<[label |-> "heavy rain"], [label |-> "gusts"]>>, <<[label |-> ""]>>,
     <<[label |-> "rush hour"]>>, <<[label |-> "5 min transfer"]>>}

ReasonConnections ==
    [transfersCount : 0..MaxReasonTransfers,
     weather : {None} \cup {Some(w) : w \in [samples : ReasonSamples,
                                             reasons : ReasonWeatherReasons]},
     reliability : {None,
                    Some([reasons |-> <<[code |-> "weekend"]>>]),
                    Some([reasons |-> <<[code |-> "weekend"], [code |-> "peak_time"]>>])}]

ReasonMetricsInputs ==
    {m \in [minTransferMinutes : {None, Some(5), Some(7), Some(8)},
            transferStation : {None, Some("Bern"), Some("")},
            delayMinutesTotal : {0, 3},
            exposureMinutes : {0, 5},
            walkingMinutes : {0, 1, 6},
            platformChanges : {[k \in 1..n |-> k] : n \in 0..MaxPlatformChanges}] :
        ~IsSome(m.minTransferMinutes) => ~IsSome(m.transferStation)}

ReasonPreferences == {None, Some([preferLowWalking |-> FALSE]), Some([preferLowWalking |-> TRUE])}

ReasonsInit ==
    /\ reasonsConn \in ReasonConnections
    /\ reasonsMetrics \in ReasonMetricsInputs
    /\ reasonsPrefs \in ReasonPreferences
    /\ reasonsOut = None

ReasonsCall ==
    /\ reasonsOut = None
    /\ reasonsOut' = Some(buildReasons(reasonsConn, reasonsMetrics, reasonsPrefs))
    /\ UNCHANGED <<reasonsConn, reasonsMetrics, reasonsPrefs>>
    /\ UNCHANGED notReasons

ReasonsNext == ReasonsCall

ReasonsParked ==
    /\ reasonsConn = [transfersCount |-> 0, weather |-> None, reliability |-> None]
    /\ reasonsMetrics = [minTransferMinutes |-> None, transferStation |-> None,
                         delayMinutesTotal |-> 0, exposureMinutes |-> 0,
                         walkingMinutes |-> 0, platformChanges |-> <<>>]
    /\ reasonsPrefs = None
    /\ reasonsOut = None

-----------------------------------------------------------------------------
(***************************************************************************)
(* resolveLineInfo                                                         *)
(*                                                                         *)
(* A string is a sequence of characters; an optional string is None or     *)
(* Some(string). A Record<string, V> is a function on its own keys.        *)
(***************************************************************************)

SPACE == " "

RECURSIVE trimStart(_)
trimStart(str) ==
    IF str # <<>> /\ Head(str) = SPACE THEN trimStart(Tail(str)) ELSE str
RECURSIVE trimEnd(_)
trimEnd(str) ==
    IF str # <<>> /\ str[Len(str)] = SPACE
      THEN trimEnd(SubSeq(str, 1, Len(str) - 1)) ELSE str
trim(str) == trimEnd(trimStart(str))

\* JavaScript truthiness of an optional string
Truthy(opt) == IsSome(opt) /\ Get(opt) # <<>>

\* a || b on optional strings
OrElse(a, b) == IF Truthy(a) THEN a ELSE b

\* record[key]: undefined for a key the record does not have
Lookup(record, key) == IF key \in DOMAIN record THEN Some(record[key]) ELSE None

\* [category, number].filter(Boolean).join(" ").trim()
fallbackDisplayOf(category, number) ==
    trim(IF Truthy(category) /\ Truthy(number)
           THEN Get(category) \o <<SPACE>> \o Get(number)
         ELSE IF Truthy(category) THEN Get(category)
         ELSE IF Truthy(number) THEN Get(number)
         ELSE <<>>)

mapRouteType(routeType) ==
    IF routeType >= 100 /\ routeType < 200 THEN "train"
    ELSE IF routeType >= 700 /\ routeType < 800 THEN "bus"
    ELSE CASE routeType = 0 -> "tram"
           [] routeType = 1 -> "metro"
           [] routeType = 2 -> "train"
           [] routeType = 3 -> "bus"
           [] routeType = 4 -> "ferry"
           [] routeType = 5 -> "cable_tram"
           [] routeType = 6 -> "aerial_lift"
           [] routeType = 7 -> "funicular"
           [] routeType = 11 -> "trolleybus"
           [] routeType = 12 -> "monorail"
           [] OTHER -> "train"

\* toUpperCase, on the letters the inputs use
toUpperChar(c) ==
    CASE c = "b" -> "B" [] c = "u" -> "U" [] c = "s" -> "S" [] c = "t" -> "T"
      [] c = "r" -> "R" [] c = "a" -> "A" [] c = "m" -> "M" [] OTHER -> c
toUpperCase(str) == [k \in 1..Len(str) |-> toUpperChar(str[k])]

includes(str, part) ==
    \E k \in 0..(Len(str) - Len(part)) : SubSeq(str, k + 1, k + Len(part)) = part

\* the mode guessed from the category
categoryLineType(category) ==
    LET upper == toUpperCase(category)
    IN  IF upper # <<>> /\ Head(upper) = "B" THEN Some("bus")
        ELSE IF includes(upper, <<"T", "R", "A", "M">>) \/ upper = <<"T">> THEN Some("tram")
        ELSE IF upper \in {<<"I", "C">>, <<"I", "R">>, <<"R", "E">>, <<"R">>, <<"E", "C">>,
                           <<"E", "N">>, <<"I", "C", "E">>, <<"S">>} THEN Some("train")
        ELSE None

\* the route id found for lookupKey: trips, then the key as a route id, then
\* the short names
findRouteIdShortNameFirst(lookup, lookupKey) ==
    LET byName == IF IsSome(lookup.routeShortNameToId)
                    THEN Lookup(Get(lookup.routeShortNameToId), lookupKey) ELSE None
        byTrip == Lookup(lookup.trips, lookupKey)
    IN  IF Truthy(byName) THEN byName
        ELSE IF Truthy(byTrip) THEN byTrip
        ELSE IF lookupKey \in DOMAIN lookup.routes THEN Some(lookupKey)
        ELSE None
findRouteId(lookup, lookupKey) ==
    LET r1 == Lookup(lookup.trips, lookupKey)
        r2 == IF ~Truthy(r1) /\ lookupKey \in DOMAIN lookup.routes
                THEN Some(lookupKey) ELSE r1
        r3 == IF ~Truthy(r2) /\ IsSome(lookup.routeShortNameToId)
                THEN OrElse(Lookup(Get(lookup.routeShortNameToId), lookupKey), r2)
                ELSE r2
    IN  r3

resolveLineInfo(line, lookup) ==
    LET rawTrimmed == IF IsSome(line.lineId) THEN trim(Get(line.lineId)) ELSE <<>>
        trimmedLineId == IF rawTrimmed # <<>> THEN Some(rawTrimmed) ELSE None
        fallbackDisplay == fallbackDisplayOf(line.category, line.number)
        lineDisplay0 == IF fallbackDisplay # <<>> THEN fallbackDisplay ELSE rawTrimmed
        lookupKey == IF IsSome(trimmedLineId) THEN rawTrimmed ELSE fallbackDisplay
        searched == IsSome(lookup) /\ lookupKey # <<>>
        routeId == IF searched THEN findRouteId(Get(lookup), lookupKey) ELSE None
        found == Truthy(routeId)
        route == IF found THEN Lookup(Get(lookup).routes, Get(routeId)) ELSE None
        display == IF IsSome(route)
                     THEN OrElse(Get(route).shortName, Get(route).longName) ELSE None
        lineDisplay1 == IF Truthy(display) THEN trim(Get(display)) ELSE lineDisplay0
        lineType1 == IF IsSome(route) /\ IsSome(Get(route).type)
                       THEN Some(mapRouteType(Get(Get(route).type))) ELSE None
        agencyId == IF found
                      THEN OrElse(IF IsSome(route) THEN Get(route).agencyId ELSE None,
                                  Get(lookup).defaultAgencyId)
                      ELSE None
        agency == IF Truthy(agencyId) THEN Lookup(Get(lookup).agencies, Get(agencyId))
                  ELSE None
        resolvedOperator == IF Truthy(agency) THEN agency ELSE line.operator
        lineDisplay == IF lineDisplay1 # <<>> THEN lineDisplay1
                       ELSE IF IsSome(trimmedLineId) THEN rawTrimmed
                       ELSE fallbackDisplay
        lineType == IF ~IsSome(lineType1) /\ Truthy(line.category)
                      THEN categoryLineType(Get(line.category)) ELSE lineType1
    IN  [lineId |-> trimmedLineId,
         lineDisplay |-> lineDisplay,
         lineType |-> lineType,
         operator |-> resolvedOperator,
         routeId |-> routeId,
         source |-> IF found THEN "gtfs" ELSE "fallback"]

\* ---- inputs

ResLineIds ==
    {None, Some(<<>>), Some(<<SPACE>>), Some(<<"T", "1">>),
     Some(<<SPACE, "T", "1", SPACE>>), Some(<<"T", "2">>), Some(<<"T", "4">>),
     Some(<<"R", "2">>), Some(<<"S", "1">>), Some(<<"9", "1", "-", "1">>),
     Some(<<"9", "9", "9">>)}
ResCategories ==
    {None, Some(<<>>), Some(<<SPACE>>), Some(<<"B">>), Some(<<"b", "u", "s">>),
     Some(<<"S">>), Some(<<"I", "R">>), Some(<<"T">>), Some(<<"t", "r", "a", "m">>),
     Some(<<"X">>)}
ResNumbers == {None, Some(<<>>), Some(<<"1">>), Some(<<"1", "6">>)}
ResOperators == {None, Some(<<"P", "A", "G">>)}

ResRoutes ==
    (<<"9", "1", "-", "1">> :>
        [shortName |-> Some(<<"S", "1">>), longName |-> Some(<<"L", "o", "n", "g">>),
         type |-> Some(109), agencyId |-> Some(<<"1", "1">>)])
    @@ (<<"R", "2">> :>
        [shortName |-> None, longName |-> Some(<<SPACE, "L", "2", SPACE>>),
         type |-> Some(3), agencyId |-> None])
    @@ (<<"R", "3">> :>
        [shortName |-> Some(<<SPACE>>), longName |-> Some(<<"L", "3">>),
         type |-> None, agencyId |-> Some(<<"7", "7">>)])
    @@ (<<"R", "4">> :>
        [shortName |-> Some(<<>>), longName |-> None,
         type |-> Some(12), agencyId |-> None])

\* T1 is a trip of route 91-1; T2 has an empty route id; R2 is a trip id and a
\* route id at once; T4 names a route that is not in the table
ResTrips ==
    (<<"T", "1">> :> <<"9", "1", "-", "1">>)
    @@ (<<"T", "2">> :> <<>>)
    @@ (<<"R", "2">> :> <<"R", "3">>)
    @@ (<<"T", "4">> :> <<"g", "o", "n", "e">>)

ResShortNames ==
    (<<"S", "1">> :> <<"9", "1", "-", "1">>)
    @@ (<<"T", "1">> :> <<"R", "2">>)
    @@ (<<"T", "2">> :> <<"R", "4">>)
    @@ (<<"9", "1", "-", "1">> :> <<"R", "2">>)
    @@ (<<"R", "2">> :> <<"9", "1", "-", "1">>)
    @@ (<<"B", SPACE, "1">> :> <<"R", "2">>)
    @@ (<<"1", "6">> :> <<>>)

ResAgencies == (<<"1", "1">> :> <<"S", "B", "B">>)

ResLookups ==
    {None}
    \cup {Some([routes |-> ResRoutes, trips |-> ResTrips, routeShortNameToId |-> names,
                agencies |-> ResAgencies, defaultAgencyId |-> agency]) :
            names \in {None, Some(ResShortNames)},
            agency \in {None, Some(<<"1", "1">>)}}

ResInit ==
    /\ resLine \in [lineId : ResLineIds, category : ResCategories,
                    number : ResNumbers, operator : ResOperators]
    /\ resLookup \in ResLookups
    /\ resOut = None

ResCall ==
    /\ resOut = None
    /\ resOut' = Some(resolveLineInfo(resLine, resLookup))
    /\ UNCHANGED <<resLine, resLookup>>
    /\ UNCHANGED notRes

ResNext == ResCall

ResParked ==
    /\ resLine = [lineId |-> None, category |-> None, number |-> None, operator |-> None]
    /\ resLookup = None
    /\ resOut = None

-----------------------------------------------------------------------------
(***************************************************************************)
(* findConnections and normalizeLegs                                       *)
(*                                                                         *)
(* The API's answer is an input. A section has walk (truthy or not), an    *)
(* optional journey and two checkpoints; texts are sequences of            *)
(* characters as in resolveLineInfo, timestamps as in buildMetrics.        *)
(***************************************************************************)

\* (\d+d)?hh:mm:ss, in minutes; 0 for a missing or unmatched text
parseDuration(duration) ==
    IF ~IsSome(duration) \/ ~Get(duration).matches THEN 0
    ELSE Get(duration).days * 24 * 60 + Get(duration).hours * 60 + Get(duration).minutes

\* a || b on optional values
FirstOf(a, b) == IF IsSome(a) THEN a ELSE b

sectionDelay(departure) ==
    IF IsSome(departure.prognosis) /\ IsSome(Get(departure.prognosis).departure)
       /\ IsSome(departure.departure)
      THEN LET planned == Get(departure.departure)
               actual == Get(Get(departure.prognosis).departure)
           IN  IF planned.ok /\ actual.ok
                 THEN Some(RoundHalves(actual.t - planned.t)) ELSE None
      ELSE None

\* the leg of a section, given what resolveLineInfo answered for its journey
legOf(section, lineInfo) ==
    LET isWalk == section.walk
        departure == section.departure
        arrival == section.arrival
        delayMinutes == sectionDelay(departure)
        prognosisOf(checkpoint) ==
            IF IsSome(checkpoint.prognosis) THEN Get(checkpoint.prognosis)
            ELSE [departure |-> None, arrival |-> None, platform |-> None]
        fromPlatform == FirstOf(prognosisOf(departure).platform, departure.platform)
        toPlatform == FirstOf(prognosisOf(arrival).platform, arrival.platform)
        fromActual == prognosisOf(departure).departure
        toActual == prognosisOf(arrival).arrival
        hasLine == ~isWalk /\ IsSome(section.journey)
        journey == Get(section.journey)
        fallbackLine == OrElse(journey.name, journey.category)
        displayLine == IF lineInfo.lineDisplay # <<>> THEN lineInfo.lineDisplay
                       ELSE IF Truthy(fallbackLine) THEN Get(fallbackLine) ELSE <<>>
    IN  [type |-> IF isWalk THEN "walk" ELSE "ride",
         from |-> [name |-> departure.station,
                   timePlanned |-> departure.departure,
                   timeActual |-> IF IsSome(fromActual) /\ fromActual # departure.departure
                                    THEN fromActual ELSE None,
                   platform |-> fromPlatform],
         to |-> [name |-> arrival.station,
                 timePlanned |-> arrival.arrival,
                 timeActual |-> IF IsSome(toActual) /\ toActual # arrival.arrival
                                  THEN toActual ELSE None,
                 platform |-> toPlatform],
         lineId |-> IF hasLine THEN OrElse(lineInfo.lineId, journey.name) ELSE None,
         lineDisplay |-> IF hasLine THEN Some(displayLine) ELSE None,
         lineType |-> IF hasLine THEN lineInfo.lineType ELSE None,
         operator |-> IF hasLine THEN OrElse(lineInfo.operator, journey.operator) ELSE None,
         line |-> IF hasLine THEN Some(displayLine) ELSE None,
         delayMinutes |-> IF IsSome(delayMinutes) /\ Get(delayMinutes) > 0
                            THEN delayMinutes ELSE None]

normalizeLeg(section, gtfsLookup) ==
    LET journey == Get(section.journey)
    IN  legOf(section, resolveLineInfo([lineId |-> journey.name,
                                        category |-> journey.category,
                                        number |-> journey.number,
                                        operator |-> journey.operator], gtfsLookup))

normalizeLegs(sections, gtfsLookup) ==
    [k \in 1..Len(sections) |-> normalizeLeg(sections[k], gtfsLookup)]

\* the names of the sections that have a journey, and the departure: the
\* parts the id is made of
generateConnectionId(conn) ==
    [departure |-> conn.from.departure,
     lines |-> LET withJourney == SelectSeq(conn.sections, LAMBDA sec : IsSome(sec.journey))
               IN  [k \in 1..Len(withJourney) |-> Get(withJourney[k].journey).name]]

\* The connections of an answer. reliability, reliabilityScore and weather
\* come from calculateReliability and getWeatherInsights and are left out.
findConnections(response, gtfsLookup) ==
    LET data == response.connections
        durations == [k \in 1..Len(data) |-> parseDuration(data[k].duration)]
        transfers == [k \in 1..Len(data) |-> data[k].transfers]
        connectionOf(k) ==
            LET conn == data[k]
                legs == normalizeLegs(conn.sections, gtfsLookup)
            IN  [id |-> generateConnectionId(conn),
                 departureTime |-> conn.from.departure,
                 arrivalTime |-> conn.to.arrival,
                 durationMinutes |-> durations[k],
                 transfersCount |-> conn.transfers,
                 legs |-> legs,
                 tags |-> (IF durations[k] = SeqMin(durations) THEN <<"fastest">> ELSE <<>>)
                          \o (IF transfers[k] = SeqMin(transfers)
                                THEN <<"fewest transfers">> ELSE <<>>)
                          \o (IF k = 1 THEN <<"recommended">> ELSE <<>>)]
    IN  [connections |-> [k \in 1..Len(data) |-> connectionOf(k)],
         fromStation |-> IF Len(data) > 0 THEN Some(data[1].from.station) ELSE None,
         toStation |-> IF Len(data) > 0 THEN Some(data[1].to.station) ELSE None]

\* ---- inputs

ApiCheckpoint(station, time, platform, prognosis) ==
    [station |-> station, departure |-> time, arrival |-> time,
     platform |-> platform, prognosis |-> prognosis]

ApiJourney(name, category, number) ==
    Some([name |-> name, category |-> category, number |-> number,
          operator |-> Some(<<"P", "A", "G">>)])

ApiRideS1 ==
    [walk |-> FALSE,
     journey |-> ApiJourney(Some(<<"T", "1">>), Some(<<"S">>), Some(<<"1">>)),
     departure |-> ApiCheckpoint("A", At(0), Some([changed |-> FALSE, text |-> "3"]), None),
     arrival |-> ApiCheckpoint("C", At(20), None, None)]

\* a bus that leaves two minutes late from a changed platform
ApiRideBus ==
    [walk |-> FALSE,
     journey |-> ApiJourney(Some(<<"9", "9", "9">>), Some(<<"B">>), None),
     departure |-> ApiCheckpoint("C", At(25), Some([changed |-> FALSE, text |-> "4"]),
                      Some([departure |-> At(27), arrival |-> None,
                            platform |-> Some([changed |-> TRUE, text |-> "5!"])])),
     arrival |-> ApiCheckpoint("B", At(50), None,
                      Some([departure |-> None, arrival |-> At(52), platform |-> None]))]

\* a walk whose checkpoint carries a prognosis
ApiWalk ==
    [walk |-> TRUE,
     journey |-> None,
     departure |-> ApiCheckpoint("C", At(20), None,
                      Some([departure |-> At(23), arrival |-> None, platform |-> None])),
     arrival |-> ApiCheckpoint("C", At(25), None, None)]

\* a section without walk and without journey
ApiBare ==
    [walk |-> FALSE,
     journey |-> None,
     departure |-> ApiCheckpoint("A", None, None, None),
     arrival |-> ApiCheckpoint("C", At(20), None, None)]

ApiSectionLists ==
    {<<ApiRideS1>>, <<ApiRideS1, ApiRideBus>>, <<ApiRideS1, ApiWalk, ApiRideBus>>,
     <<ApiWalk>>, <<ApiBare, ApiWalk, ApiRideBus>>}

ApiDurations ==
    {None, Some([matches |-> TRUE, days |-> 0, hours |-> 0, minutes |-> 50])}

\* transfers is a field of the answer of its own
ApiConnections ==
    {[from |-> sections[1].departure,
      to |-> sections[Len(sections)].arrival,
      duration |-> duration,
      transfers |-> transfers,
      sections |-> sections] :
        sections \in ApiSectionLists, duration \in ApiDurations,
        transfers \in 0..MaxApiTransfers}

ApiResponses ==
    {[ok |-> FALSE, connections |-> <<>>]}
    \cup {[ok |-> TRUE, connections |-> list] :
            list \in UNION {[1..n -> ApiConnections] : n \in 0..MaxApiConnections}}

FindInit ==
    /\ findResponse \in ApiResponses
    /\ findLookup \in {None, Some([routes |-> ResRoutes, trips |-> ResTrips,
                                   routeShortNameToId |-> Some(ResShortNames),
                                   agencies |-> ResAgencies,
                                   defaultAgencyId |-> Some(<<"1", "1">>)])}
    /\ findOut = None

\* the whole call: the fetch, the lookup and the mapping of every connection
FindCall ==
    /\ findOut = None
    /\ findOut' = IF ~findResponse.ok THEN Some([error |-> "API error"])
                  ELSE Some(findConnections(findResponse, findLookup))
    /\ UNCHANGED <<findResponse, findLookup>>
    /\ UNCHANGED notFind

FindNext == FindCall

FindParked ==
    /\ findResponse = [ok |-> FALSE, connections |-> <<>>]
    /\ findLookup = None
    /\ findOut = None

-----------------------------------------------------------------------------
(* buildMetrics: its argument *)

Halves(t) == Some([ok |-> TRUE, t |-> t])
Invalid == Some([ok |-> FALSE, t |-> 0])

MetStop(name, planned, actual) ==
    [name |-> name, timePlanned |-> planned, timeActual |-> actual, platform |-> None]

MetLeg(type, from, to, line, delay) ==
    [type |-> type, from |-> from, to |-> to, line |-> line, delayMinutes |-> delay]

\* Legs as normalizeLegs builds them (a walk leg carries delayMinutes when its
\* section has a later prognosis), and one with a negative delay. Times are
\* in half minutes.
MetLegPool ==
    {MetLeg("ride", MetStop("A", Halves(0), None), MetStop("C", Halves(40), None),
            Some("S1"), None),
     MetLeg("ride", MetStop("C", Halves(50), Halves(53)),
            MetStop("B", Halves(100), Halves(95)), Some("S2"), Some(3)),
     MetLeg("ride", MetStop("B", Halves(102), None), MetStop("D", Halves(120), Invalid),
            Some("S2"), Some(3)),
     MetLeg("ride", MetStop("E", Halves(30), None), MetStop("F", Halves(47), None),
            None, Some(2)),
     MetLeg("ride", MetStop("F", None, None),
            [MetStop("G", Halves(60), None) EXCEPT
                !.platform = Some([changed |-> TRUE, text |-> "5!"])],
            Some(""), Some(-1)),
     MetLeg("walk", MetStop("C", Halves(40), None), MetStop("C2", Halves(55), None),
            None, None),
     MetLeg("walk", MetStop("C", Halves(44), None), MetStop("C2", Halves(40), Halves(41)),
            None, Some(4)),
     MetLeg("walk", MetStop("C", None, None), MetStop("C2", Halves(55), None),
            None, None)}

MetLegLists == UNION {[1..n -> MetLegPool] : n \in 0..MaxLegs}

MetInit ==
    /\ metLegs \in MetLegLists
    /\ metOut = None

MetCall ==
    /\ metOut = None
    /\ metOut' = Some(buildMetrics(metLegs))
    /\ UNCHANGED metLegs
    /\ UNCHANGED notMet

MetNext == MetCall

MetParked ==
    /\ metLegs = <<>>
    /\ metOut = None

-----------------------------------------------------------------------------
(***************************************************************************)
(* The lookup builder: parseRoutes, parseTrips, parseAgencies, buildLookup *)
(* Strings are sequences of characters; a table is the sequence of rows    *)
(* forEachCsvRow hands to onRow, each row a sequence of cells. An object   *)
(* is the sequence of its <<key, value>> pairs in the order the keys were   *)
(* first set. A word without digits and spaces is written as one element.  *)
(***************************************************************************)

Digits == <<"0", "1", "2", "3", "4", "5", "6", "7", "8", "9">>
IsDigit(c) == \E d \in 1..Len(Digits) : Digits[d] = c
DigitValue(c) == (CHOOSE d \in 1..Len(Digits) : Digits[d] = c) - 1

RECURSIVE NumberOf(_)
NumberOf(str) ==
    IF str = <<>> THEN 0
    ELSE 10 * NumberOf(SubSeq(str, 1, Len(str) - 1)) + DigitValue(str[Len(str)])

\* an integer index key: "0" or digits without a leading zero (the keys an
\* object lists first, in ascending order; those checked are far below 2^32)
IsIndexKey(key) ==
    /\ key # <<>>
    /\ \A k \in 1..Len(key) : IsDigit(key[k])
    /\ (Len(key) > 1 => key[1] # "0")

\* obj[key]
GetKey(obj, key) ==
    IF \E k \in 1..Len(obj) : obj[k][1] = key
      THEN Some(obj[CHOOSE k \in 1..Len(obj) : obj[k][1] = key][2])
      ELSE None

\* obj[key] = value: a key the object has keeps its place
SetKey(obj, key, value) ==
    IF \E k \in 1..Len(obj) : obj[k][1] = key
      THEN [k \in 1..Len(obj) |-> IF obj[k][1] = key THEN <<key, value>> ELSE obj[k]]
      ELSE Append(obj, <<key, value>>)

\* Object.entries / Object.keys order: the integer index keys in ascending
\* numeric order, then the other keys in the order they were set
RECURSIVE SortIndexEntries(_)
SortIndexEntries(entries) ==
    IF entries = <<>> THEN <<>>
    ELSE LET least == CHOOSE k \in 1..Len(entries) :
                          \A j \in 1..Len(entries) :
                              NumberOf(entries[k][1]) <= NumberOf(entries[j][1])
         IN  <<entries[least]>>
             \o SortIndexEntries([k \in 1..(Len(entries) - 1) |->
                                     IF k < least THEN entries[k] ELSE entries[k + 1]])
Entries(obj) ==
    SortIndexEntries(SelectSeq(obj, LAMBDA e : IsIndexKey(e[1])))
    \o SelectSeq(obj, LAMBDA e : ~IsIndexKey(e[1]))

\* row.indexOf(name), 0-based, -1 when absent
indexOf(cells, word) ==
    IF \E k \in 1..Len(cells) : cells[k] = word
      THEN (CHOOSE k \in 1..Len(cells) :
                cells[k] = word /\ \A j \in 1..(k - 1) : cells[j] # word) - 1
      ELSE -1

\* row[idx]: undefined outside the row
Cell(cells, idx) == IF idx >= 0 /\ idx < Len(cells) THEN Some(cells[idx + 1]) ELSE None

\* (row[idx] || "").trim()
TrimmedCell(cells, idx) ==
    IF Truthy(Cell(cells, idx)) THEN trim(Get(Cell(cells, idx))) ELSE <<>>

\* row[idx]?.trim() || undefined
TrimmedOrUndefined(cells, idx) ==
    IF IsSome(Cell(cells, idx)) /\ trim(Get(Cell(cells, idx))) # <<>>
      THEN Some(trim(Get(Cell(cells, idx)))) ELSE None

\* parseRoutes: the routes after the first n data rows. longName, type and
\* agencyId are read the same way and are left out.
RECURSIVE routesAfter(_, _)
routesAfter(table, n) ==
    IF n = 0 THEN <<>>
    ELSE LET routes == routesAfter(table, n - 1)
             header == table[1]
             cells == table[n + 1]
             routeId == TrimmedCell(cells, indexOf(header, <<"route_id">>))
         IN  IF routeId = <<>> THEN routes
             ELSE SetKey(routes, routeId,
                         [shortName |->
                             TrimmedOrUndefined(cells, indexOf(header, <<"route_short_name">>))])
parseRoutes(routesTxt) ==
    IF routesTxt = <<>> THEN <<>> ELSE routesAfter(routesTxt, Len(routesTxt) - 1)

\* parseTrips
RECURSIVE tripsAfter(_, _)
tripsAfter(table, n) ==
    IF n = 0 THEN <<>>
    ELSE LET trips == tripsAfter(table, n - 1)
             header == table[1]
             cells == table[n + 1]
             tripId == TrimmedCell(cells, indexOf(header, <<"trip_id">>))
             routeId == TrimmedCell(cells, indexOf(header, <<"route_id">>))
         IN  IF tripId = <<>> \/ routeId = <<>> THEN trips
             ELSE SetKey(trips, tripId, routeId)
parseTrips(tripsTxt) ==
    IF tripsTxt = <<>> THEN <<>> ELSE tripsAfter(tripsTxt, Len(tripsTxt) - 1)

\* parseAgencies: agencies and fallbackId after the first n data rows
DefaultFallbackId == <<"default">>
RECURSIVE agenciesAfter(_, _)
agenciesAfter(table, n) ==
    IF n = 0 THEN [agencies |-> <<>>, fallbackId |-> DefaultFallbackId]
    ELSE LET before == agenciesAfter(table, n - 1)
             header == table[1]
             cells == table[n + 1]
             idxId == indexOf(header, <<"agency_id">>)
             idxName == indexOf(header, <<"agency_name">>)
             name == TrimmedCell(cells, idxName)
             id == IF idxId >= 0
                     THEN (IF Truthy(Cell(cells, idxId))
                             THEN trim(Get(Cell(cells, idxId)))
                             ELSE trim(before.fallbackId))
                     ELSE before.fallbackId
         IN  IF name = <<>> THEN before
             ELSE [agencies |-> SetKey(before.agencies, id, name),
                   fallbackId |-> id]
parseAgencies(agencyTxt) ==
    LET agencies == IF agencyTxt = <<>> THEN <<>>
                    ELSE agenciesAfter(agencyTxt, Len(agencyTxt) - 1).agencies
    IN  [agencies |-> agencies,
         defaultAgencyId |-> IF Len(Entries(agencies)) = 1
                               THEN Some(Entries(agencies)[1][1]) ELSE None]

\* the loop of buildLookup over Object.entries(routes)
RECURSIVE shortNamesAfter(_, _)
shortNamesAfter(entries, n) ==
    IF n = 0 THEN <<>>
    ELSE LET map == shortNamesAfter(entries, n - 1)
             routeId == entries[n][1]
             info == entries[n][2]
         IN  IF ~Truthy(info.shortName) THEN map
             ELSE IF ~Truthy(GetKey(map, Get(info.shortName)))
                    THEN SetKey(map, Get(info.shortName), routeId)
                    ELSE map
routeShortNameToIdOf(routes) == shortNamesAfter(Entries(routes), Len(Entries(routes)))

\* the lookup buildLookup writes (generatedAt and source left out)
lookupOf(files) ==
    LET routes == parseRoutes(files.routes)
        parsed == parseAgencies(files.agency)
    IN  [routes |-> routes,
         trips |-> parseTrips(files.trips),
         routeShortNameToId |-> routeShortNameToIdOf(routes),
         agencies |-> parsed.agencies,
         defaultAgencyId |-> parsed.defaultAgencyId]

\* ---- the build as a process

TableNames == {"routes", "trips", "agency"}

\* readGtfsFiles resolves: a download, a folder or a .zip with the three tables
readableWithoutAgency(input) ==
    /\ input.source \in {"url-zip", "folder", "zip"}
    /\ {"routes", "trips"} \subseteq input.present
readable(input) ==
    /\ input.source \in {"url-zip", "folder", "zip"}
    /\ input.present = TableNames

BldStart ==
    /\ bldpc = "start"
    /\ IF bldInput.source = "none"
         THEN bldpc' = "exited" /\ bldExit' = Some(1)
         ELSE bldpc' = "reading" /\ bldExit' = bldExit
    /\ UNCHANGED <<bldInput, bldFiles, bldLookup, bldOutput>>
    /\ UNCHANGED notBld

\* await readGtfsFiles()
BldRead ==
    /\ bldpc = "reading"
    /\ IF readable(bldInput)
         THEN bldFiles' = Some(bldInput.files) /\ bldpc' = "parse"
         ELSE bldFiles' = bldFiles /\ bldpc' = "rejected"
    /\ UNCHANGED <<bldInput, bldLookup, bldOutput, bldExit>>
    /\ UNCHANGED notBld

\* the three parsers and the short-name loop, up to await mkdir
BldParse ==
    /\ bldpc = "parse"
    /\ bldLookup' = Some(lookupOf(Get(bldFiles)))
    /\ bldpc' = "mkdir"
    /\ UNCHANGED <<bldInput, bldFiles, bldOutput, bldExit>>
    /\ UNCHANGED notBld

\* await mkdir(...): it succeeds or rejects
BldMkdir ==
    /\ bldpc = "mkdir"
    /\ \E ok \in BOOLEAN : bldpc' = IF ok THEN "write" ELSE "rejected"
    /\ UNCHANGED <<bldInput, bldFiles, bldLookup, bldOutput, bldExit>>
    /\ UNCHANGED notBld

\* await writeFile(output, JSON.stringify(lookup)): it succeeds or rejects
BldWrite ==
    /\ bldpc = "write"
    /\ \E ok \in BOOLEAN :
          IF ok THEN bldOutput' = bldLookup /\ bldpc' = "done"
                ELSE bldOutput' = bldOutput /\ bldpc' = "rejected"
    /\ UNCHANGED <<bldInput, bldFiles, bldLookup, bldExit>>
    /\ UNCHANGED notBld

\* buildLookup().catch: console.error and process.exit(1)
BldCatch ==
    /\ bldpc = "rejected"
    /\ bldExit' = Some(1)
    /\ bldpc' = "exited"
    /\ UNCHANGED <<bldInput, bldFiles, bldLookup, bldOutput>>
    /\ UNCHANGED notBld

\* the promise resolved: the process ends with exit code 0
BldEnd ==
    /\ bldpc = "done"
    /\ bldExit' = Some(0)
    /\ bldpc' = "exited"
    /\ UNCHANGED <<bldInput, bldFiles, bldLookup, bldOutput>>
    /\ UNCHANGED notBld

BldNext == BldStart \/ BldRead \/ BldParse \/ BldMkdir \/ BldWrite \/ BldCatch \/ BldEnd

\* ---- inputs

RoutesHeader == << <<"route_id">>, <<"route_short_name">> >>
RouteIdCells == { <<"1", "0">>, <<"2">>, <<"R", "1">> }
ShortNameCells == { <<>>, <<"S", "1">>, <<"S", "2">> }
RouteRows == {<<id, short>> : id \in RouteIdCells, short \in ShortNameCells}
RoutesTables ==
    {<<RoutesHeader>> \o rows : rows \in UNION {[1..n -> RouteRows] : n \in 0..MaxRouteRows}}

AgencyIdCells == { <<>>, <<"1">>, <<"2">> }
AgencyNameCells == { <<>>, <<"SBB">>, <<"BLS">> }
AgencyTablesWithId ==
    {<< << <<"agency_id">>, <<"agency_name">> >> >> \o rows :
        rows \in UNION {[1..n -> {<<id, word>> : id \in AgencyIdCells,
                                                 word \in AgencyNameCells}] :
                          n \in 0..MaxAgencyRows}}
AgencyTablesWithoutId ==
    {<< << <<"agency_name">>, <<"agency_url">> >> >> \o rows :
        rows \in UNION {[1..n -> {<<word, <<"u">> >> :
                                    word \in AgencyNameCells \cup {<<" ", "SBB">>}}] :
                          n \in 0..MaxAgencyRows}}
AgencyTables == AgencyTablesWithId \cup AgencyTablesWithoutId

RoutesExample == <<RoutesHeader, << <<"R", "1">>, <<"S", "1">> >> >>
TripsExample ==
    << << <<"route_id">>, <<"trip_id">> >>, << <<"R", "1">>, <<"T", "1">> >> >>
AgencyExample ==
    << << <<"agency_id">>, <<"agency_name">> >>, << <<"1">>, <<"SBB">> >> >>
FilesExample == [routes |-> RoutesExample, trips |-> TripsExample, agency |-> AgencyExample]

\* every way to fail with the example tables; folders with every agency
\* table; archives with every routes table
BldInputs ==
    {[source |-> source, present |-> present, files |-> FilesExample] :
        source \in {"none", "url-error", "url-zip", "missing", "folder", "other-file", "zip"},
        present \in SUBSET TableNames}
    \cup {[source |-> "folder", present |-> TableNames,
           files |-> [FilesExample EXCEPT !.agency = table]] : table \in AgencyTables}
    \cup {[source |-> "zip", present |-> TableNames,
           files |-> [FilesExample EXCEPT !.routes = table]] : table \in RoutesTables}

BldInit ==
    /\ bldInput \in BldInputs
    /\ bldpc = "start"
    /\ bldFiles = None
    /\ bldLookup = None
    /\ bldOutput = None
    /\ bldExit = None

BldParked ==
    /\ bldInput = [source |-> "none", present |-> {}, files |-> FilesExample]
    /\ bldpc = "exited"
    /\ bldFiles = None
    /\ bldLookup = None
    /\ bldOutput = None
    /\ bldExit = None

-----------------------------------------------------------------------------
(***************************************************************************)
(* The find_connections tool (src/index.ts), from the answer of            *)
(* findConnections on                                                      *)
(***************************************************************************)

\* Math.max(0, Math.floor(maxTransfers)) and the filter with its fallback;
\* maxTransfers is given in halves
filteredConnectionsNoFallback(allConnections, maxTransfers) ==
    IF maxTransfers = None THEN allConnections
    ELSE SelectSeq(allConnections,
                   LAMBDA connection :
                       connection.transfersCount <= IntMax(0, Get(maxTransfers) \div 2))
filteredConnectionsOf(allConnections, maxTransfers) ==
    IF maxTransfers = None THEN allConnections
    ELSE LET limit == IntMax(0, Get(maxTransfers) \div 2)
             matches == SelectSeq(allConnections,
                                  LAMBDA connection : connection.transfersCount <= limit)
         IN  IF Len(matches) > 0 THEN matches ELSE allConnections

\* the connection as the widget gets it at detail level "compact"
compactConnection(connection) ==
    [id |-> connection.id,
     departureTime |-> connection.departureTime,
     arrivalTime |-> connection.arrivalTime,
     durationMinutes |-> connection.durationMinutes,
     transfersCount |-> connection.transfersCount,
     legs |-> connection.legs,
     reliabilityScore |-> IF IsSome(connection.reliability)
                             /\ IsSome(Get(connection.reliability).score)
                            THEN Get(connection.reliability).score
                            ELSE connection.reliabilityScore]

\* the handler with no buffer and a departure time
find_connections(allConnections, args) ==
    IF Len(allConnections) = 0 THEN [text |-> "No connections found"]
    ELSE LET filteredConnections == filteredConnectionsOf(allConnections, args.maxTransfers)
         IN  [connectionsForWidget |->
                 IF args.detailLevel = "full" THEN filteredConnections
                 ELSE [k \in 1..Len(filteredConnections) |->
                          compactConnection(filteredConnections[k])],
              decision |->
                 buildDecisionSummary(allConnections,
                     [from |-> "A", to |-> "B",
                      requestedTimeISO |-> args.requestTime,
                      isArrivalTime |-> FALSE,
                      arrivalBufferMinutes |-> Some(0),
                      departureBufferMinutes |-> Some(0),
                      preferences |->
                          [maxTransfers |-> args.maxTransfers,
                           preferLowWalking |-> args.preferLowWalking,
                           minimizeOutdoorIfRaining |-> args.minimizeOutdoorIfRaining]])]

\* ---- inputs

ToolArgs ==
    [maxTransfers : {None} \cup {Some(h) : h \in -2..5},
     detailLevel : {"compact", "full"},
     requestTime : {At(0)},
     preferLowWalking : {FALSE},
     minimizeOutdoorIfRaining : {FALSE, TRUE}]

ToolInit ==
    /\ toolConnections \in DecConnectionLists
    /\ toolArgs \in ToolArgs
    /\ toolOut = None

ToolCall ==
    /\ toolOut = None
    /\ toolOut' = Some(find_connections(toolConnections, toolArgs))
    /\ UNCHANGED <<toolConnections, toolArgs>>
    /\ UNCHANGED notTool

ToolNext == ToolCall

ToolParked ==
    /\ toolConnections = <<>>
    /\ toolArgs = [maxTransfers |-> None, detailLevel |-> "compact",
                   requestTime |-> At(0), preferLowWalking |-> FALSE,
                   minimizeOutdoorIfRaining |-> FALSE]
    /\ toolOut = None

-----------------------------------------------------------------------------
(* Specifications *)

InitLookup == LookupInit /\ CsvParked /\ RiskParked /\ DecParked /\ ReasonsParked /\ ResParked /\ FindParked /\ MetParked
    /\ BldParked
    /\ ToolParked
SpecLookup == InitLookup /\ [][LookupNext]_vars

InitCsv == CsvInit /\ LookupParked /\ RiskParked /\ DecParked /\ ReasonsParked /\ ResParked /\ FindParked /\ MetParked
    /\ BldParked
    /\ ToolParked
SpecCsv == InitCsv /\ [][CsvNext]_vars

InitRisk == RiskInit /\ LookupParked /\ CsvParked /\ DecParked /\ ReasonsParked /\ ResParked /\ FindParked /\ MetParked
    /\ BldParked
    /\ ToolParked
SpecRisk == InitRisk /\ [][RiskNext]_vars

InitDecision == DecInit /\ LookupParked /\ CsvParked /\ RiskParked /\ ReasonsParked /\ ResParked /\ FindParked /\ MetParked
    /\ BldParked
    /\ ToolParked
SpecDecision == InitDecision /\ [][DecNext]_vars

InitReasons == ReasonsInit /\ LookupParked /\ CsvParked /\ RiskParked /\ DecParked /\ ResParked /\ FindParked /\ MetParked
    /\ BldParked
    /\ ToolParked
SpecReasons == InitReasons /\ [][ReasonsNext]_vars

InitResolve ==
    ResInit /\ LookupParked /\ CsvParked /\ RiskParked /\ DecParked /\ ReasonsParked
    /\ FindParked /\ MetParked
    /\ BldParked
    /\ ToolParked
SpecResolve == InitResolve /\ [][ResNext]_vars

InitFind ==
    FindInit /\ LookupParked /\ CsvParked /\ RiskParked /\ DecParked /\ ReasonsParked
    /\ ResParked /\ MetParked
    /\ BldParked
    /\ ToolParked
SpecFind == InitFind /\ [][FindNext]_vars

InitMetrics ==
    MetInit /\ LookupParked /\ CsvParked /\ RiskParked /\ DecParked /\ ReasonsParked
    /\ ResParked /\ FindParked
    /\ BldParked
    /\ ToolParked
SpecMetrics == InitMetrics /\ [][MetNext]_vars

InitBuild ==
    BldInit /\ LookupParked /\ CsvParked /\ RiskParked /\ DecParked /\ ReasonsParked
    /\ ResParked /\ FindParked /\ MetParked
    /\ ToolParked
SpecBuild == InitBuild /\ [][BldNext]_vars

InitTool ==
    ToolInit /\ LookupParked /\ CsvParked /\ RiskParked /\ DecParked /\ ReasonsParked
    /\ ResParked /\ FindParked /\ MetParked /\ BldParked
SpecTool == InitTool /\ [][ToolNext]_vars

-----------------------------------------------------------------------------
(***************************************************************************)
(* What a CSV text denotes, read off the text as a whole (no scanning      *)
(* state): a character is inside quotes when an odd number of quote        *)
(* characters precedes it.                                                 *)
(***************************************************************************)

QuotesBefore(s, p) == Cardinality({k \in 1..(p - 1) : s[k] = QUOTE})
Outside(s, p) == QuotesBefore(s, p) % 2 = 0

RECURSIVE SortedSeq(_)
SortedSeq(S) ==
    IF S = {} THEN <<>>
    ELSE LET m == CHOOSE x \in S : \A y \in S : x <= y
         IN  <<m>> \o SortedSeq(S \ {m})

\* A row separator starts at p: LF, CR or CR LF outside quotes; the LF of a
\* CR LF pair starts none.
BreakStart(s, p) ==
    /\ s[p] \in {LF, CR}
    /\ Outside(s, p)
    /\ ~(s[p] = LF /\ p > 1 /\ s[p - 1] = CR)
BreakEnd(s, p) == IF s[p] = CR /\ NextIs(s, p, LF) THEN p + 1 ELSE p

\* The raw rows of s as <<first, last>> positions; first > last is an empty
\* line. Text after the last separator is a row when it is not empty.
RawRowSpans(s) ==
    LET bs == SortedSeq({p \in 1..Len(s) : BreakStart(s, p)})
        n == Len(bs)
        startOf(k) == IF k = 1 THEN 1 ELSE BreakEnd(s, bs[k - 1]) + 1
    IN  [k \in 1..n |-> <<startOf(k), bs[k] - 1>>]
        \o (IF startOf(n + 1) <= Len(s)
              THEN << <<startOf(n + 1), Len(s)>> >> ELSE <<>>)

\* The raw fields of the row at a..b: split at the commas outside quotes.
RawFieldSpans(s, a, b) ==
    LET cs == SortedSeq({p \in a..b : s[p] = COMMA /\ Outside(s, p)})
        n == Len(cs)
        startOf(k) == IF k = 1 THEN a ELSE cs[k - 1] + 1
    IN  [k \in 1..(n + 1) |-> <<startOf(k), IF k <= n THEN cs[k] - 1 ELSE b>>]

RECURSIVE KeepWhere(_, _, _)
\* the subsequence of t at the positions k..Len(t) that satisfy keep
KeepWhere(t, keep(_), k) ==
    IF k > Len(t) THEN <<>>
    ELSE (IF keep(k) THEN <<t[k]>> ELSE <<>>) \o KeepWhere(t, keep, k + 1)

\* Each doubled quote reduced to one: of every pair the second is dropped.
Unescape(t) ==
    LET keep(k) == t[k] # QUOTE \/ QuotesBefore(t, k) % 2 = 0
    IN  KeepWhere(t, keep, 1)

QuotePositions(t) == SortedSeq({k \in 1..Len(t) : t[k] = QUOTE})

\* quotes occur in t only as adjacent pairs
OnlyDoubledQuotes(t) ==
    LET qs == QuotePositions(t)
    IN  /\ Len(qs) % 2 = 0
        /\ \A j \in 1..Len(qs) : j % 2 = 0 => qs[j] = qs[j - 1] + 1

IsQuotedField(t) ==
    /\ Len(t) >= 2
    /\ t[1] = QUOTE
    /\ t[Len(t)] = QUOTE
    /\ OnlyDoubledQuotes(SubSeq(t, 2, Len(t) - 1))

FieldWellFormed(t) == QuotePositions(t) = <<>> \/ IsQuotedField(t)
FieldValue(t) ==
    IF IsQuotedField(t) THEN Unescape(SubSeq(t, 2, Len(t) - 1)) ELSE t

RawFields(s, a, b) ==
    LET fs == RawFieldSpans(s, a, b)
    IN  [j \in 1..Len(fs) |-> SubSeq(s, fs[j][1], fs[j][2])]

WellFormedCsv(s) ==
    \A k \in 1..Len(RawRowSpans(s)) :
        LET sp == RawRowSpans(s)[k]
            fs == RawFields(s, sp[1], sp[2])
        IN  \A j \in 1..Len(fs) : FieldWellFormed(fs[j])

HasEmptyLine(s) ==
    \E k \in 1..Len(RawRowSpans(s)) : RawRowSpans(s)[k][1] > RawRowSpans(s)[k][2]

\* The logical rows of s: the fields of every raw row that is not an empty line.
LogicalRows(s) ==
    LET sps == SelectSeq(RawRowSpans(s), LAMBDA sp : sp[1] <= sp[2])
    IN  [k \in 1..Len(sps) |->
            LET fs == RawFields(s, sps[k][1], sps[k][2])
            IN  [j \in 1..Len(fs) |-> FieldValue(fs[j])]]

EmittedRows == [k \in 1..Len(emitted) |-> emitted[k].row]
EmittedIndexes == [k \in 1..Len(emitted) |-> emitted[k].rowIndex]

-----------------------------------------------------------------------------
(* Claims about getGtfsLookup *)

(* C1: across any interleaving of getGtfsLookup calls in one process, the
   GTFS lookup file is read at most once. *)
C1_ReadAtMostOnce == fileReads <= 1

(* C2: once any call has stored an outcome (a lookup or "not available"),
   the cached value never changes again. *)
C2_OutcomePermanent ==
    [][cachedLookup # Undefined => cachedLookup' = cachedLookup]_vars

-----------------------------------------------------------------------------
(* Claims about forEachCsvRow *)

(* C3: for every well-formed CSV text the callback is called once per logical
   row, in input order, with row indexes 0, 1, 2, ..., and each row's fields
   are the unquoted, unescaped comma-separated values; a last row without a
   line break is emitted too. Stated here on the texts without an empty line
   (C4 is about those). *)
C3_RowsAsWritten ==
    (csvpc = "done" /\ WellFormedCsv(content) /\ ~HasEmptyLine(content)) =>
        /\ EmittedRows = LogicalRows(content)
        /\ EmittedIndexes = [k \in 1..Len(emitted) |-> k - 1]

(* C4: a wholly empty line is not emitted as a row: no onRow call is made
   with a row built from zero characters of content. *)
C4_NoRowFromEmptyLine ==
    \A k \in 1..Len(emitted) : emitted[k].rawLen > 0

(* C5: LF, CR and CR LF end a row only outside quotes; CR LF ends exactly one
   row and is consumed as one separator; a CR or LF inside a quoted field is
   appended to the field and ends no row. Stated on every loop iteration. *)
C5_RowBreaksOnlyOutsideQuotes ==
    [][(csvpc = "loop" /\ i <= Len(content)) =>
        LET ch == content[i]
            isBreak == ch \in {LF, CR}
            isCrLf == ch = CR /\ i < Len(content) /\ content[i + 1] = LF
        IN  /\ (isBreak /\ inQuotes) =>
                /\ field' = Append(field, ch)
                /\ emitted' = emitted
                /\ row' = row
                /\ inQuotes'
                /\ i' = i + 1
            /\ (isBreak /\ ~inQuotes) =>
                /\ Len(emitted') = Len(emitted) + 1
                /\ emitted'[Len(emitted')].row = Append(row, field)
                /\ row' = <<>>
                /\ field' = <<>>
                /\ i' = IF isCrLf THEN i + 2 ELSE i + 1
            /\ emitted' # emitted => (isBreak /\ ~inQuotes)
      ]_vars

\* A text with a CR inside a quoted field and a CR LF outside has been read:
\* one row, whose field holds the CR.
C5_Witness ==
    /\ csvpc = "done"
    /\ content = <<QUOTE, CR, QUOTE, CR, LF>>
    /\ EmittedRows = << << <<CR>> >> >>

(* C6: on an unterminated quote the tokenizer ends without an error, all the
   remaining characters (commas and line breaks included, doubled quotes
   reduced) are part of the current field, and that field's row is emitted as
   the last row. *)
C6_UnterminatedQuoteRunsToEnd ==
    (csvpc = "done" /\ inQuotes) =>
        /\ Len(emitted) > 0
        /\ LET e == emitted[Len(emitted)]
               f == e.row[Len(e.row)]
               rest == Unescape(SubSeq(content, openAt + 1, Len(content)))
           IN  /\ e.rawStart <= openAt
               /\ e.rawStart + e.rawLen = Len(content) + 1
               /\ Len(f) >= Len(rest)
               /\ SubSeq(f, Len(f) - Len(rest) + 1, Len(f)) = rest

-----------------------------------------------------------------------------
(* Claims about computeRisk *)

\* q, a multiple of 1/100, in hundredths
Hundredths(q) == (q.num * 100) \div q.den
\* q, a multiple of 1/20000, in units of 1/20000
RiskUnits(q) == (q.num * 20000) \div q.den

IntClamp(x, lo, hi) == IF x < lo THEN lo ELSE IF x > hi THEN hi ELSE x

\* The claimed score in units of 1/20000, in integer arithmetic:
\* (1 - r) + p * (0.3 + 0.7 * clamp(e / 20, 0, 1)) + tight, clamped to 0..1
ClaimedRiskUnits(connection, metrics) ==
    LET r == IF IsSome(connection.reliability)
               THEN Hundredths(Get(Get(connection.reliability).score))
             ELSE IF IsSome(connection.reliabilityScore)
               THEN Hundredths(Get(connection.reliabilityScore))
             ELSE 70
        p == IF IsSome(connection.weather)
               THEN Hundredths(Get(Get(connection.weather).penalty))
               ELSE 0
        e == IntClamp(metrics.exposureMinutes, 0, 20)
        t == IF metrics.minTransferMinutes = None THEN 0
             ELSE IF Get(metrics.minTransferMinutes) < 6 THEN 2400
             ELSE IF Get(metrics.minTransferMinutes) < 8 THEN 1200
             ELSE 0
    IN  IntClamp(200 * (100 - r) + p * (60 + 7 * e) + t, 0, 20000)

(* C7: computeRisk returns score = clamp((1 - reliability) + weatherPenalty *
   (0.3 + 0.7 * clamp(exposureMinutes / 20, 0, 1)) + tightTransferPenalty,
   0, 1), reliability defaulting to 0.7 and weatherPenalty to 0, so the score
   lies in [0, 1]; exposure 16, penalty 0.5, default reliability and no tight
   transfer give 0.73. *)
C7_RiskScoreFormula ==
    IsSome(riskOut) =>
        LET score == Get(riskOut).score
        IN  /\ score = Q(ClaimedRiskUnits(riskConn, riskMetrics), 20000)
            /\ QLe(QInt(0), score) /\ QLe(score, QInt(1))
            /\ (/\ riskConn.reliability = None
                /\ riskConn.reliabilityScore = None
                /\ riskConn.weather = Some([penalty |-> Some(Q(1, 2))])
                /\ riskMetrics.exposureMinutes = 16
                /\ riskMetrics.minTransferMinutes = Some(10))
               => score = Q(73, 100)

\* the example of the claim has been computed; so has a sum above 1
C7_Witness ==
    /\ IsSome(riskOut)
    /\ riskConn.reliability = None
    /\ riskConn.reliabilityScore = None
    /\ riskConn.weather = Some([penalty |-> Some(Q(1, 2))])
    /\ riskMetrics.exposureMinutes = 16
    /\ riskMetrics.minTransferMinutes = Some(10)
    /\ Get(riskOut).score = Q(73, 100)

(* C8: the level is a function of the score alone: high iff score >= 0.6,
   medium iff 0.35 <= score < 0.6, low iff score < 0.35. *)
C8_RiskLevelBoundaries ==
    IsSome(riskOut) =>
        LET u == RiskUnits(Get(riskOut).score)
            level == Get(riskOut).level
        IN  /\ level = "high" <=> u >= 12000
            /\ level = "medium" <=> (7000 <= u /\ u < 12000)
            /\ level = "low" <=> u < 7000

\* a score of exactly 0.35 has been classed medium
C8_Witness ==
    /\ IsSome(riskOut)
    /\ Get(riskOut).score = Q(35, 100)
    /\ Get(riskOut).level = "medium"

-----------------------------------------------------------------------------
(* Claims about buildDecisionSummary *)

C9_Letters ==
    <<"A", "B", "C", "D", "E", "F", "G", "H", "I", "J", "K", "L", "M",
      "N", "O", "P", "Q", "R", "S", "T", "U", "V", "W", "X", "Y", "Z">>
C9_Label(k) ==
    IF k <= 26 THEN "Option " \o C9_Letters[k] ELSE "Option " \o ToString(k)

(* C9: the options are ordered by non-decreasing decision score, options with
   equal decision scores keep their relative order from the input list, and
   the option at position k (1-based) has rank k and label "Option " + the
   k-th letter for k <= 26, "Option " + k beyond. *)
C9_RankedOrder ==
    IsSome(decOut) =>
        LET ranked == Get(decOut).ranked
            options == Get(decOut).options
        IN  /\ Len(options) = Len(ranked)
            /\ \A k \in 1..(Len(ranked) - 1) :
                  \/ QLt(ranked[k].decisionScore, ranked[k + 1].decisionScore)
                  \/ /\ ranked[k].decisionScore = ranked[k + 1].decisionScore
                     /\ ranked[k].inputPos < ranked[k + 1].inputPos
            /\ \A k \in 1..Len(options) :
                  /\ options[k].id = decConnections[ranked[k].inputPos].id
                  /\ options[k].rank = k
                  /\ options[k].label = C9_Label(k)

\* more than 26 options were ranked, two neighbours with equal scores among
\* them and two with different scores
C9_Witness ==
    /\ IsSome(decOut)
    /\ Len(Get(decOut).options) > 26
    /\ Get(decOut).options[27].label = "Option 27"
    /\ \E k \in 1..(Len(Get(decOut).ranked) - 1) :
          /\ Get(decOut).ranked[k].decisionScore = Get(decOut).ranked[k + 1].decisionScore
          /\ Get(decOut).options[k].id # Get(decOut).options[k + 1].id
    /\ \E k \in 1..(Len(Get(decOut).ranked) - 1) :
          QLt(Get(decOut).ranked[k].decisionScore, Get(decOut).ranked[k + 1].decisionScore)

\* the input positions whose transfersCount is within max(0, floor(maxTransfers))
C10_Within ==
    LET h == Get(decContext.preferences.maxTransfers)
        limit == IF h < 0 THEN 0 ELSE h \div 2
    IN  {k \in 1..Len(decConnections) : decConnections[k].transfersCount <= limit}

C10_RankedPositions ==
    {Get(decOut).ranked[k].inputPos : k \in 1..Len(Get(decOut).ranked)}

C10_FilterOrFallback ==
    /\ IF C10_Within # {}
         THEN /\ C10_RankedPositions = C10_Within
              /\ Len(Get(decOut).options) = Cardinality(C10_Within)
              /\ Get(decOut).constraintNote = None
         ELSE /\ C10_RankedPositions = 1..Len(decConnections)
              /\ Len(Get(decOut).options) = Len(decConnections)
              /\ IsSome(Get(decOut).constraintNote)
    /\ Len(decConnections) > 0 => Len(Get(decOut).options) > 0

(* C10, as claimed: with a maxTransfers preference the connections within
   max(0, floor(maxTransfers)) transfers are ranked, without a constraint
   note, if there is one; if there is none the full input is ranked and a
   constraint note is attached. A non-empty input gives a non-empty list. *)
C10_AsClaimed ==
    (IsSome(decOut) /\ IsSome(decContext.preferences.maxTransfers)) =>
        C10_FilterOrFallback

(* C10, amended: the same for a non-empty input; for an empty input the
   option list is empty and no constraint note is attached. *)
C10_FilterOrFallbackNonEmpty ==
    (IsSome(decOut) /\ IsSome(decContext.preferences.maxTransfers)) =>
        IF Len(decConnections) > 0
          THEN C10_FilterOrFallback
          ELSE /\ Get(decOut).options = <<>>
               /\ Get(decOut).constraintNote = None

\* only two-transfer connections with maxTransfers = 0.5: both are ranked and
\* the note is attached
C10_Witness ==
    /\ IsSome(decOut)
    /\ decContext.preferences.maxTransfers = Some(1)
    /\ Len(decConnections) = 2
    /\ \A k \in 1..2 : decConnections[k].transfersCount = 2
    /\ Len(Get(decOut).options) = 2
    /\ IsSome(Get(decOut).constraintNote)

-----------------------------------------------------------------------------
(* Claims about buildReasons *)

C11_Tight ==
    /\ IsSome(reasonsMetrics.minTransferMinutes)
    /\ Get(reasonsMetrics.minTransferMinutes) < 8

C11_TightText ==
    ToString(Get(reasonsMetrics.minTransferMinutes)) \o " min transfer"
    \o (IF reasonsMetrics.transferStation \in {None, Some("")}
          THEN "" ELSE " at " \o Get(reasonsMetrics.transferStation))

C11_WeatherWord ==
    LET w == reasonsConn.weather
    IN  IF w = None \/ Get(w).samples = <<>> THEN ""
        ELSE IF Head(Get(w).samples).snowfall > 0 THEN "snow"
        ELSE IF Head(Get(w).samples).precipitation > 0 THEN "rain"
        ELSE IF Head(Get(w).samples).windGusts > 50 THEN "wind"
        ELSE ""

C11_Exposed == C11_WeatherWord # "" /\ reasonsMetrics.exposureMinutes > 0

\* the text of the candidate with priority p, "" when its condition fails
C11_Text(p) ==
    CASE p = 1 -> IF C11_Tight THEN C11_TightText ELSE ""
      [] p = 2 -> IF reasonsMetrics.delayMinutesTotal > 0
                    THEN "current delay +" \o ToString(reasonsMetrics.delayMinutesTotal)
                         \o " min"
                    ELSE ""
      [] p = 3 -> IF C11_Exposed
                    THEN C11_WeatherWord \o " + "
                         \o ToString(reasonsMetrics.exposureMinutes) \o " min exposed"
                    ELSE ""
      [] p = 4 -> IF ~C11_Exposed /\ reasonsConn.weather # None
                     /\ Get(reasonsConn.weather).reasons # <<>>
                    THEN Head(Get(reasonsConn.weather).reasons).label
                    ELSE ""
      [] p = 5 -> IF reasonsMetrics.walkingMinutes >=
                        (IF reasonsPrefs = Some([preferLowWalking |-> TRUE]) THEN 1 ELSE 6)
                    THEN ToString(reasonsMetrics.walkingMinutes) \o " min walk"
                    ELSE ""
      [] p = 6 -> IF reasonsConn.transfersCount = 1 THEN "1 transfer"
                  ELSE IF reasonsConn.transfersCount > 1
                    THEN ToString(reasonsConn.transfersCount) \o " transfers"
                  ELSE ""
      [] p = 7 -> IF Len(reasonsMetrics.platformChanges) = 1 THEN "1 platform change"
                  ELSE IF Len(reasonsMetrics.platformChanges) > 1
                    THEN ToString(Len(reasonsMetrics.platformChanges)) \o " platform changes"
                  ELSE ""
      [] p = 8 -> IF /\ reasonsConn.reliability # None
                     /\ \E k \in DOMAIN Get(reasonsConn.reliability).reasons :
                           Get(reasonsConn.reliability).reasons[k].code = "peak_time"
                    THEN "rush hour" ELSE ""

\* the priorities whose candidate is present and whose text no candidate of
\* a smaller priority number has
C11_Candidates ==
    {p \in 1..8 : /\ C11_Text(p) # ""
                  /\ \A q \in 1..(p - 1) : C11_Text(q) # C11_Text(p)}

(* C11: buildReasons returns at most three labels, none repeated: the
   candidates with the lowest priority numbers in ascending priority order
   (1 tight transfer, 2 delay, 3 weather + exposure or else 4 top weather
   reason, 5 walking, 6 transfers, 7 platform changes, 8 rush hour); a tight
   transfer reason (minimum transfer < 8 min) is always first and "rush hour"
   never precedes it. *)
C11_TopThreeByPriority ==
    IsSome(reasonsOut) =>
        LET out == Get(reasonsOut)
            order == SortedSeq(C11_Candidates)
        IN  /\ Len(out) <= 3
            /\ \A j, k \in 1..Len(out) : j # k => out[j] # out[k]
            /\ Len(out) = IntMin(3, Len(order))
            /\ \A k \in 1..Len(out) : out[k] = C11_Text(order[k])
            /\ C11_Tight =>
                  /\ Len(out) >= 1 /\ out[1] = C11_TightText
                  /\ \A k \in 1..Len(out) : out[k] = "rush hour" => k > 1

\* a tight transfer, a delay, a weather reason, a walk, transfers, platform
\* changes and the rush hour all apply: the first three are kept
C11_Witness ==
    /\ IsSome(reasonsOut)
    /\ C11_Tight
    /\ Cardinality(C11_Candidates) = 7
    /\ Get(reasonsOut) = <<"5 min transfer at Bern", "current delay +3 min",
                           "rain + 5 min exposed">>

-----------------------------------------------------------------------------
(* Claims about resolveLineInfo *)

\* str without the spaces at its ends
C12_Stripped(str) ==
    LET inked == {k \in 1..Len(str) : str[k] # SPACE}
    IN  IF inked = {} THEN <<>>
        ELSE SubSeq(str, CHOOSE a \in inked : \A k \in inked : a <= k,
                         CHOOSE b \in inked : \A k \in inked : k <= b)

C12_RawId == IF resLine.lineId = None THEN <<>> ELSE C12_Stripped(Get(resLine.lineId))

\* the non-empty ones of category and number, with one space between them
C12_Join ==
    LET c == IF resLine.category = None THEN <<>> ELSE Get(resLine.category)
        n == IF resLine.number = None THEN <<>> ELSE Get(resLine.number)
    IN  C12_Stripped(IF c # <<>> /\ n # <<>> THEN c \o <<SPACE>> \o n ELSE c \o n)

C12_Key == IF C12_RawId # <<>> THEN C12_RawId ELSE C12_Join

\* the route ids the three steps produce for the key, in the order tried
C12_Produced ==
    IF resLookup = None \/ C12_Key = <<>> THEN <<>>
    ELSE LET l == Get(resLookup)
         IN  (IF C12_Key \in DOMAIN l.trips /\ l.trips[C12_Key] # <<>>
                THEN <<l.trips[C12_Key]>> ELSE <<>>)
             \o (IF C12_Key \in DOMAIN l.routes THEN <<C12_Key>> ELSE <<>>)
             \o (IF /\ l.routeShortNameToId # None
                    /\ C12_Key \in DOMAIN Get(l.routeShortNameToId)
                    /\ Get(l.routeShortNameToId)[C12_Key] # <<>>
                   THEN <<Get(l.routeShortNameToId)[C12_Key]>> ELSE <<>>)

(* C12: with a lookup and a non-empty key (the trimmed raw identifier, or the
   category+number join when the identifier is blank) the route id is the
   first one produced by the trip map, the key as a route id of the route
   table, the short-name map, in this order; the source is "gtfs" exactly
   when one of them produced a route id and "fallback" otherwise, also
   without a lookup and for an empty key. *)
C12_RouteSearchOrder ==
    IsSome(resOut) =>
        /\ C12_Produced # <<>> =>
              /\ Get(resOut).routeId = Some(Head(C12_Produced))
              /\ Get(resOut).source = "gtfs"
        /\ C12_Produced = <<>> =>
              /\ ~Truthy(Get(resOut).routeId)
              /\ Get(resOut).source = "fallback"

\* T1 is a trip of route 91-1 and a short name of route R2: the trip wins and
\* the display is the short name S1 of 91-1
C12_Witness ==
    /\ IsSome(resOut)
    /\ resLine.lineId = Some(<<SPACE, "T", "1", SPACE>>)
    /\ Len(C12_Produced) = 2
    /\ Get(resOut).routeId = Some(<<"9", "1", "-", "1">>)
    /\ Get(resOut).lineDisplay = <<"S", "1">>
    /\ Get(resOut).source = "gtfs"

\* the name of the route found in the lookup: its short name, else its long
\* name, <<>> when no route was found or it has no name
C13_ReferenceName ==
    IF C12_Produced = <<>> \/ Head(C12_Produced) \notin DOMAIN Get(resLookup).routes
      THEN <<>>
    ELSE LET route == Get(resLookup).routes[Head(C12_Produced)]
         IN  IF route.shortName \notin {None, Some(<<>>)}
               THEN C12_Stripped(Get(route.shortName))
             ELSE IF route.longName # None THEN C12_Stripped(Get(route.longName))
             ELSE <<>>

(* C13: the display string is the first non-empty one of the reference name
   (short name, else long name), the raw trimmed line identifier, the
   category+number join, and the empty string; when nothing is resolved and
   a raw identifier and a category are both given it is the raw identifier. *)
C13_DisplayOrder ==
    IsSome(resOut) =>
        Get(resOut).lineDisplay =
            (IF C13_ReferenceName # <<>> THEN C13_ReferenceName
             ELSE IF C12_RawId # <<>> THEN C12_RawId
             ELSE C12_Join)

(* C14: a second call with the same connections and context gives the same
   option order, ranks, labels, reasons, recommendedOptionId and narrative
   text, and no call reorders or modifies the input connection list. *)
C14_SameAnswerInputUntouched ==
    [][/\ decConnections' = decConnections
       /\ IsSome(decOut2') =>
             /\ Get(decOut2').options = Get(decOut').options
             /\ Get(decOut2').recommendedOptionId = Get(decOut').recommendedOptionId
             /\ Get(decOut2').summaryText = Get(decOut').summaryText]_vars

\* two calls were made on a list that holds two connections of equal score
\* and whose best option is not the first connection of the list
C14_Witness ==
    /\ IsSome(decOut2)
    /\ Len(Get(decOut2).options) = MaxConns
    /\ Get(decOut2).options[1].id # decConnections[1].id
    /\ \E k \in 1..(MaxConns - 1) :
          Get(decOut2).ranked[k].decisionScore = Get(decOut2).ranked[k + 1].decisionScore

(* C15: for a non-empty result recommendedOptionId is the id of the rank-1
   option, whose decision score is at most that of every other option; for
   an empty connection list the option list is empty, recommendedOptionId is
   absent and the narrative is the one no-connections line. *)
C15_RecommendedIsBest ==
    IsSome(decOut) =>
        LET out == Get(decOut)
        IN  IF Len(decConnections) = 0
              THEN /\ out.options = <<>>
                   /\ out.recommendedOptionId = None
                   /\ out.summaryText = "No connections found from A to B."
              ELSE /\ Len(out.options) > 0
                   /\ \E k \in 1..Len(out.options) :
                         /\ out.options[k].rank = 1
                         /\ out.recommendedOptionId = Some(out.options[k].id)
                         /\ \A j \in 1..Len(out.ranked) :
                               QLe(out.ranked[k].decisionScore,
                                   out.ranked[j].decisionScore)
                   /\ \A j, k \in 1..Len(out.options) :
                         out.options[j].rank = out.options[k].rank => j = k

\* three connections were ranked and the recommended one, strictly better
\* than the others, is the last of the input list
C15_Witness ==
    /\ IsSome(decOut)
    /\ Len(decConnections) = 3
    /\ Get(decOut).recommendedOptionId = Some(decConnections[3].id)
    /\ decConnections[3].id \notin {decConnections[1].id, decConnections[2].id}
    /\ QLt(Get(decOut).ranked[1].decisionScore, Get(decOut).ranked[2].decisionScore)

\* the empty connection list was answered
C15_WitnessEmpty ==
    /\ IsSome(decOut)
    /\ decConnections = <<>>
    /\ Get(decOut).summaryText = "No connections found from A to B."

-----------------------------------------------------------------------------
(* Claims about findConnections *)

(* C16: for every connection findConnections produces, transfersCount is the
   number of ride legs of its leg sequence minus one, clamped at zero. *)
C16_TransfersCountFromLegs ==
    (IsSome(findOut) /\ "connections" \in DOMAIN Get(findOut)) =>
        \A k \in 1..Len(Get(findOut).connections) :
            LET connection == Get(findOut).connections[k]
                rides == {j \in 1..Len(connection.legs) : connection.legs[j].type = "ride"}
            IN  connection.transfersCount =
                    (IF Cardinality(rides) > 1 THEN Cardinality(rides) - 1 ELSE 0)

-----------------------------------------------------------------------------
(* Claims about buildMetrics *)

\* the actual time of a stop when it has one, else the planned time
C17_TimeAt(stop) == IF stop.timeActual # None THEN stop.timeActual ELSE stop.timePlanned

\* rounded, zero-floored minutes from a to b; 0 when either is missing or
\* cannot be parsed
C17_Minutes(a, b) ==
    IF a = None \/ b = None THEN 0
    ELSE IF ~Get(a).ok \/ ~Get(b).ok THEN 0
    ELSE IF Get(b).t <= Get(a).t THEN 0
    ELSE IF (Get(b).t - Get(a).t) % 2 = 0 THEN (Get(b).t - Get(a).t) \div 2
    ELSE (Get(b).t - Get(a).t + 1) \div 2

\* the positions of the legs of a type, in order
C17_Positions(type) == SortedSeq({k \in 1..Len(metLegs) : metLegs[k].type = type})

C17_Wait(k) ==
    LET rides == C17_Positions("ride")
    IN  C17_Minutes(C17_TimeAt(metLegs[rides[k]].to), C17_TimeAt(metLegs[rides[k + 1]].from))

(* C17: buildMetrics computes one transfer wait per adjacent pair of ride
   legs, walk legs ignored, so there are max(0, rideLegCount - 1) waits; each
   is the rounded, zero-floored minutes from the previous ride's
   actual-or-planned arrival to the next ride's actual-or-planned departure;
   transferWaitMinutes is their sum, minTransferMinutes their minimum
   (undefined without a transfer) and transferStation the arrival station of
   the ride leg before the first wait equal to the minimum. *)
C17_TransferWaits ==
    IsSome(metOut) =>
        LET out == Get(metOut)
            rides == C17_Positions("ride")
            n == IF Len(rides) > 1 THEN Len(rides) - 1 ELSE 0
            waits == out.transferWaitMinutesList
        IN  /\ Len(waits) = n
            /\ \A k \in 1..n : waits[k] = C17_Wait(k)
            /\ out.transferWaitMinutes = SeqSum([k \in 1..n |-> C17_Wait(k)])
            /\ n = 0 => out.minTransferMinutes = None /\ out.transferStation = None
            /\ n > 0 =>
                  \E k \in 1..n :
                      /\ \A j \in 1..n : C17_Wait(k) <= C17_Wait(j)
                      /\ \A j \in 1..(k - 1) : C17_Wait(j) # C17_Wait(k)
                      /\ out.minTransferMinutes = Some(C17_Wait(k))
                      /\ out.transferStation = Some(metLegs[rides[k]].to.name)

\* ride, walk, ride: one wait, from the first ride's arrival at 00:20 to the
\* second ride's actual departure at 00:26:30, which rounds to 7 minutes
C17_Witness ==
    /\ IsSome(metOut)
    /\ Len(metLegs) = 3
    /\ metLegs[1].type = "ride" /\ metLegs[2].type = "walk" /\ metLegs[3].type = "ride"
    /\ metLegs[3].from.timeActual = Halves(53)
    /\ Get(metOut).transferWaitMinutesList = <<7>>
    /\ Get(metOut).minTransferMinutes = Some(7)
    /\ Get(metOut).transferStation = Some("C")

(* C18: walkingMinutes is the sum over the walk legs of the minutes from
   actual-or-planned departure to actual-or-planned arrival, each rounded and
   floored at zero; a walk leg with a missing or unparseable timestamp, or
   whose arrival precedes its departure, contributes zero; every minute
   figure of the metrics is a non-negative integer. *)
C18_WalkingMinutes ==
    IsSome(metOut) =>
        LET out == Get(metOut)
            walks == C17_Positions("walk")
        IN  /\ out.walkingMinutes =
                  SeqSum([k \in 1..Len(walks) |->
                             C17_Minutes(C17_TimeAt(metLegs[walks[k]].from),
                                         C17_TimeAt(metLegs[walks[k]].to))])
            /\ out.walkingMinutes \in Nat
            /\ out.transferWaitMinutes \in Nat
            /\ out.exposureMinutes \in Nat
            /\ out.delayMinutesTotal \in Nat
            /\ out.minTransferMinutes # None => Get(out.minTransferMinutes) \in Nat

\* three walk legs: 7.5 minutes (counted as 8), one that arrives before it
\* leaves and one without a departure time (both counted as 0)
C18_Witness ==
    /\ IsSome(metOut)
    /\ Len(metLegs) = 3
    /\ \A k \in 1..3 : metLegs[k].type = "walk"
    /\ \E k \in 1..3 : metLegs[k].from.timePlanned = None
    /\ \E k \in 1..3 : metLegs[k].to.timeActual = Halves(41)
    /\ Get(metOut).walkingMinutes = 8

\* the '<line> +<N> min' text of leg k, 'Delay +<N> min' without a line name
C19_Label(k) ==
    (IF metLegs[k].line \in {None, Some("")} THEN "Delay" ELSE Get(metLegs[k].line))
    \o " +" \o ToString(Get(metLegs[k].delayMinutes)) \o " min"

\* the legs with a positive delay
C19_Delayed ==
    {k \in 1..Len(metLegs) :
        metLegs[k].delayMinutes # None /\ Get(metLegs[k].delayMinutes) > 0}

(* C19: delayMinutesTotal is the sum of the positive delay values over every
   leg of the connection, and delayAlerts holds one label per distinct
   '<line> +<N> min' text ('Delay +<N> min' without a line name) in first-seen
   order, none repeated. *)
C19_DelayTotalAndAlerts ==
    IsSome(metOut) =>
        LET out == Get(metOut)
            delayed == SortedSeq(C19_Delayed)
            firsts == SortedSeq({k \in C19_Delayed :
                                    \A j \in C19_Delayed : j < k => C19_Label(j) # C19_Label(k)})
        IN  /\ out.delayMinutesTotal =
                  SeqSum([k \in 1..Len(delayed) |-> Get(metLegs[delayed[k]].delayMinutes)])
            /\ out.delayAlerts = [k \in 1..Len(firsts) |-> C19_Label(firsts[k])]

-----------------------------------------------------------------------------
(* C20: the tight-transfer penalty of computeRisk is 0.12 when the minimum
   transfer wait is below 6 minutes, 0.06 when it is at least 6 and below 8
   minutes, and 0 when it is 8 minutes or more or there is no transfer. *)
C20_TightTransferPenalty ==
    IsSome(riskOut) =>
        LET wait == riskMetrics.minTransferMinutes
            hundredths == IF wait = None THEN 0
                          ELSE IF Get(wait) \in 0..5 THEN 12
                          ELSE IF Get(wait) \in 6..7 THEN 6
                          ELSE 0
            withoutPenalty ==
                computeRisk(riskConn, [riskMetrics EXCEPT !.minTransferMinutes = None]).score
        IN  /\ Get(riskOut).tightTransferPenalty = Q(hundredths, 100)
            \* where nothing is clamped the score rises by the penalty
            /\ (/\ QLt(QInt(0), withoutPenalty)
                /\ QLt(QAdd(withoutPenalty, Q(hundredths, 100)), QInt(1))) =>
                  Get(riskOut).score = QAdd(withoutPenalty, Q(hundredths, 100))

\* a minimum wait of exactly 6 minutes was scored with 0.06, unclamped
C20_Witness ==
    /\ IsSome(riskOut)
    /\ riskMetrics.minTransferMinutes = Some(6)
    /\ Get(riskOut).tightTransferPenalty = Q(6, 100)
    /\ QLt(Get(riskOut).score, QInt(1))
    /\ QLt(QInt(0), Get(riskOut).score)

-----------------------------------------------------------------------------
(***************************************************************************)
(* The decision score                                                      *)
(***************************************************************************)

\* the entries of the last answer, in ranked order, and the values of a
\* field over them
C21_Ranked == Get(decOut).ranked
C21_Values(name) == {C21_Ranked[k].option[name] : k \in 1..Len(C21_Ranked)}
C21_Least(S) == CHOOSE x \in S : \A y \in S : x <= y
C21_Greatest(S) == CHOOSE x \in S : \A y \in S : y <= x
C21_AtLeastOne(n) == IF n < 1 THEN 1 ELSE n

\* a value placed between two bounds, 0 when the bounds coincide
C21_Term(value, low, high) ==
    IF high <= low THEN QInt(0) ELSE Q(value - low, high - low)

\* the weights, in hundredths, of risk, duration, transfers, walking, exposure
C21_Weights(k) ==
    <<55, 20, 10,
      IF decContext.preferences.preferLowWalking THEN 10 ELSE 0,
      IF /\ decContext.preferences.minimizeOutdoorIfRaining
         /\ isWetWeather(decConnections[C21_Ranked[k].inputPos].weather)
        THEN 10 ELSE 0>>

C21_Terms(k) ==
    LET o == C21_Ranked[k].option
    IN  <<o.riskScore,
          C21_Term(o.durationMinutes, C21_Least(C21_Values("durationMinutes")),
                   C21_Greatest(C21_Values("durationMinutes"))),
          C21_Term(o.transfersCount, 0,
                   C21_AtLeastOne(C21_Greatest(C21_Values("transfersCount")))),
          C21_Term(o.walkingMinutes, 0,
                   C21_AtLeastOne(C21_Greatest(C21_Values("walkingMinutes")))),
          C21_Term(o.exposureMinutes, 0,
                   C21_AtLeastOne(C21_Greatest(C21_Values("exposureMinutes"))))>>

C21_WeightSum(k) == SeqSum(C21_Weights(k))

RECURSIVE C21_Weighted(_, _)
C21_Weighted(k, n) ==
    IF n = 0 THEN QInt(0)
    ELSE QAdd(C21_Weighted(k, n - 1), QMul(C21_Terms(k)[n], QInt(C21_Weights(k)[n])))

C21_SameNumber(a, b) == ~QLt(a, b) /\ ~QLt(b, a)

\* C21: the decision score of every ranked connection is the weighted mean
\* of its risk score (0.55), its duration between the least and the greatest
\* duration of the ranked set (0.2), its transfers, walking minutes and
\* exposure minutes over the greatest of the set, at least 1 (0.1, 0.1 with
\* preferLowWalking, 0.1 with minimizeOutdoorIfRaining on a wet connection),
\* divided by the sum of the active weights; the sum is positive, the score
\* is in [0, 1], and a term whose two bounds coincide is 0.
C21_WeightedMean ==
    IsSome(decOut) =>
        \A k \in 1..Len(C21_Ranked) :
            /\ C21_WeightSum(k) > 0
            /\ C21_SameNumber(QMul(C21_Ranked[k].decisionScore, QInt(C21_WeightSum(k))),
                              C21_Weighted(k, 5))
            /\ QLe(QInt(0), C21_Ranked[k].decisionScore)
            /\ QLe(C21_Ranked[k].decisionScore, QInt(1))
            /\ (Cardinality(C21_Values("durationMinutes")) = 1
                  => C21_Terms(k)[2] = QInt(0))

\* an answer ranking connections of different durations with both
\* preferences set, one of them wet, with a score strictly inside (0, 1);
\* and one ranking a single connection, whose duration term is 0
C21_Witness ==
    /\ IsSome(decOut)
    /\ Len(C21_Ranked) >= 2
    /\ Cardinality(C21_Values("durationMinutes")) >= 2
    /\ \E k \in 1..Len(C21_Ranked) :
          /\ C21_WeightSum(k) = 105
          /\ QLt(QInt(0), C21_Terms(k)[2])
          /\ QLt(QInt(0), C21_Ranked[k].decisionScore)
          /\ QLt(C21_Ranked[k].decisionScore, QInt(1))

\* wet by the first forecast sample alone
C22_FirstSampleWet(weather) ==
    /\ IsSome(weather)
    /\ Len(Get(weather).samples) > 0
    /\ \/ Get(weather).samples[1].precipitation > 0
       \/ Get(weather).samples[1].snowfall > 0

C22_ExposureWeight(k) ==
    IF /\ decContext.preferences.minimizeOutdoorIfRaining
       /\ C22_FirstSampleWet(decConnections[C21_Ranked[k].inputPos].weather)
      THEN 10 ELSE 0

\* the score a connection has when its exposure weight is the given one
C22_ScoreWith(k, exposureWeight) ==
    QDiv(QAdd(C21_Weighted(k, 4), QMul(C21_Terms(k)[5], QInt(exposureWeight))),
         QInt(55 + 20 + 10 + C21_Weights(k)[4] + exposureWeight))

\* C22: the exposure weight of a ranked connection is 0.1 exactly when
\* minimizeOutdoorIfRaining is set and the first sample of the connection's
\* forecast has positive precipitation or snowfall, and 0 otherwise, rain or
\* snow in a later sample included: the decision score is the weighted mean
\* under that weight.
C22_ExposureWeightByFirstSample ==
    IsSome(decOut) =>
        \A k \in 1..Len(C21_Ranked) :
            C21_SameNumber(C21_Ranked[k].decisionScore,
                           C22_ScoreWith(k, C22_ExposureWeight(k)))

-----------------------------------------------------------------------------
(***************************************************************************)
(* Arrival buffer and leave-by time                                        *)
(***************************************************************************)

\* the whole number nearest to a number of half minutes, a half going up
C23_RoundedMinutes(halves) ==
    CHOOSE n \in -(halves * halves + 1)..(halves * halves + 1) :
        2 * n - 1 <= halves /\ halves < 2 * n + 1

C23_Connection(k) == decConnections[C21_Ranked[k].inputPos]

\* C23: in an arrival-by query the arrival buffer of every option is the
\* requested time minus the connection's arrival time in rounded minutes, 0
\* when that is negative; in a departure query with a positive buffer the
\* leave-by time of every option is the connection's departure time minus
\* the buffer; in every other case no leave-by time is set.
C23_BufferAndLeaveBy ==
    IsSome(decOut) =>
        \A k \in 1..Len(C21_Ranked) :
            LET o == C21_Ranked[k].option
                late == Get(decContext.requestedTimeISO).t
                          - Get(C23_Connection(k).arrivalTime).t
                buffer == decContext.departureBufferMinutes
            IN  /\ decContext.isArrivalTime =>
                      /\ IsSome(o.arrivalBufferMinutes)
                      /\ Get(o.arrivalBufferMinutes) >= 0
                      /\ Get(o.arrivalBufferMinutes) =
                            (IF late < 0 THEN 0 ELSE C23_RoundedMinutes(late))
                /\ IF ~decContext.isArrivalTime /\ IsSome(buffer) /\ Get(buffer) > 0
                     THEN /\ IsSome(o.suggestedLeaveByTime)
                          /\ Get(o.suggestedLeaveByTime).t =
                                Get(C23_Connection(k).departureTime).t - 2 * Get(buffer)
                     ELSE o.suggestedLeaveByTime = None

\* an arrival-by answer with an option that arrives five and a half minutes
\* early (buffer 6) and one that arrives after the requested time (buffer 0)
C23_Witness ==
    /\ IsSome(decOut)
    /\ decContext.isArrivalTime
    /\ \E k \in 1..Len(C21_Ranked) :
          /\ Get(C21_Ranked[k].option.arrivalBufferMinutes) = 6
          /\ Get(C23_Connection(k).arrivalTime).t = 120
    /\ \E k \in 1..Len(C21_Ranked) :
          /\ Get(C21_Ranked[k].option.arrivalBufferMinutes) = 0
          /\ Get(C23_Connection(k).arrivalTime).t > 131

\* a departure answer whose options have a leave-by time ten minutes before
\* the departure
C23_WitnessLeaveBy ==
    /\ IsSome(decOut)
    /\ ~decContext.isArrivalTime
    /\ decContext.departureBufferMinutes = Some(10)
    /\ \E k \in 1..Len(C21_Ranked) :
          Get(C21_Ranked[k].option.suggestedLeaveByTime).t
            = Get(C23_Connection(k).departureTime).t - 20

-----------------------------------------------------------------------------
(***************************************************************************)
(* The lookup builder: agencies, short names, fatal errors                 *)
(***************************************************************************)

C24_Table == Get(bldFiles).agency
C24_HasIdColumn == \E k \in 1..Len(C24_Table[1]) : C24_Table[1][k] = <<"agency_id">>
C24_NameOf(cells) ==
    trim(cells[CHOOSE k \in 1..Len(C24_Table[1]) : C24_Table[1][k] = <<"agency_name">>])
\* the data rows that name an agency, in table order
C24_Named == SelectSeq(Tail(C24_Table), LAMBDA cells : C24_NameOf(cells) # <<>>)

\* the key of the n-th named row: "default" for the first, then the name of
\* the named row before it
C24_KeyOf(n) == IF n = 1 THEN <<"default">> ELSE C24_NameOf(C24_Named[n - 1])

\* C24: without an agency_id column every named agency row is stored under
\* the fallback id current at that row ("default" at first, then the name of
\* the named row before it), so that rows with different names are stored
\* under different keys.
C24_FallbackRotatesToName ==
    (IsSome(bldLookup) /\ ~C24_HasIdColumn) =>
        /\ \A n \in 1..Len(C24_Named) :
              \E e \in 1..Len(Get(bldLookup).agencies) :
                  /\ Get(bldLookup).agencies[e][1] = C24_KeyOf(n)
           \* a later row may be stored under the same key only with the same name
                  /\ \/ Get(bldLookup).agencies[e][2] = C24_NameOf(C24_Named[n])
                     \/ \E m \in (n + 1)..Len(C24_Named) : C24_KeyOf(m) = C24_KeyOf(n)
        /\ \A n, m \in 1..Len(C24_Named) :
              C24_NameOf(C24_Named[n]) # C24_NameOf(C24_Named[m]) =>
                  \E e, f \in 1..Len(Get(bldLookup).agencies) :
                      /\ e # f
                      /\ Get(bldLookup).agencies[e][2] = C24_NameOf(C24_Named[n])
                      /\ Get(bldLookup).agencies[f][2] = C24_NameOf(C24_Named[m])

\* the agency names of the table
C25_Names == {C24_NameOf(C24_Named[n]) : n \in 1..Len(C24_Named)}

\* C25: the lookup has a default agency id only when the agency table names
\* exactly one agency; a table with two or more differently named agency
\* rows yields none, with or without an agency_id column and with or
\* without blank agency_id cells.
C25_DefaultOnlyForOneAgency ==
    IsSome(bldLookup) =>
        (IsSome(Get(bldLookup).defaultAgencyId) => Cardinality(C25_Names) = 1)

\* the data rows of the routes table: <<route id, short name>>, trimmed
C26_Rows ==
    [n \in 1..(Len(Get(bldFiles).routes) - 1) |->
        <<trim(Get(bldFiles).routes[n + 1][1]), trim(Get(bldFiles).routes[n + 1][2])>>]
C26_FirstRowWith(short) ==
    CHOOSE n \in 1..Len(C26_Rows) :
        C26_Rows[n][2] = short /\ \A j \in 1..(n - 1) : C26_Rows[j][2] # short

\* C26: for every short name carried by a row of the routes table, the
\* short-name map points to the route id of the first such row of the table,
\* whatever the route ids look like.
C26_FirstSeenWins ==
    IsSome(bldLookup) =>
        \A n \in 1..Len(C26_Rows) :
            C26_Rows[n][2] # <<>> =>
                GetKey(Get(bldLookup).routeShortNameToId, C26_Rows[n][2])
                  = Some(C26_Rows[C26_FirstRowWith(C26_Rows[n][2])][1])

\* the build is pointed at a path that does not exist, or at an archive or
\* folder that lacks one of the three tables
C27_Unreadable ==
    \/ bldInput.source = "missing"
    \/ /\ bldInput.source \in {"zip", "folder", "url-zip"}
       /\ \E table \in {"routes", "trips", "agency"} : table \notin bldInput.present

\* C27: a build whose input path does not exist or whose archive lacks
\* routes.txt, trips.txt or agency.txt never parses and never writes the
\* output file, goes on until the process exits, and exits with code 1; the
\* output file, when written, holds the lookup built from the three tables
\* that were read.
C27_FatalWithoutOutput ==
    /\ C27_Unreadable =>
          /\ bldOutput = None
          /\ bldLookup = None
          /\ bldpc \in {"start", "reading", "rejected", "exited"}
          /\ (bldpc = "exited" => bldExit = Some(1))
          /\ (bldpc # "exited" => ENABLED BldNext)
    /\ IsSome(bldOutput) =>
          /\ bldFiles = Some(bldInput.files)
          /\ bldInput.present = {"routes", "trips", "agency"}
          /\ bldOutput = bldLookup
          /\ IsSome(bldLookup)

\* the build of an archive without agency.txt has exited with code 1
C27_Witness ==
    /\ bldInput.source = "zip"
    /\ bldInput.present = {"routes", "trips"}
    /\ bldpc = "exited"
    /\ bldExit = Some(1)
    /\ bldOutput = None

-----------------------------------------------------------------------------
(***************************************************************************)
(* The Leg invariant                                                       *)
(***************************************************************************)

\* the legs of every connection of the answer
C28_Legs ==
    IF IsSome(findOut) /\ "connections" \in DOMAIN Get(findOut)
      THEN UNION {{Get(findOut).connections[c].legs[k] :
                      k \in 1..Len(Get(findOut).connections[c].legs)} :
                  c \in 1..Len(Get(findOut).connections)}
      ELSE {}

\* C28: a walk leg made by normalizeLegs has no lineId, lineDisplay,
\* lineType, operator, line or delayMinutes, whatever prognosis its section
\* carries; a delayMinutes that is present is a positive whole number on a
\* ride leg.
C28_LegInvariant ==
    \A leg \in C28_Legs :
        /\ leg.type = "walk" =>
              /\ leg.lineId = None
              /\ leg.lineDisplay = None
              /\ leg.lineType = None
              /\ leg.operator = None
              /\ leg.line = None
              /\ leg.delayMinutes = None
        /\ IsSome(leg.delayMinutes) =>
              /\ Get(leg.delayMinutes) \in Nat \ {0}
              /\ leg.type = "ride"

-----------------------------------------------------------------------------
(***************************************************************************)
(* The widget's connections and the decision's options                     *)
(***************************************************************************)

C29_Answered == IsSome(toolOut) /\ "decision" \in DOMAIN Get(toolOut)
C29_Widget == Get(toolOut).connectionsForWidget
C29_Options == Get(toolOut).decision.options

\* how many times an id occurs in a list of connections or options
C29_Count(list, id) == Cardinality({k \in 1..Len(list) : list[k].id = id})

\* C29: whatever the connections and maxTransfers, the connections handed to
\* the widget are the connections that appear as options of the decision
\* summary: the same ids, each as many times.
C29_WidgetMatchesOptions ==
    C29_Answered =>
        /\ Len(C29_Widget) = Len(C29_Options)
        /\ \A k \in 1..Len(C29_Widget) :
              C29_Count(C29_Widget, C29_Widget[k].id)
                = C29_Count(C29_Options, C29_Widget[k].id)

\* a limit that keeps some connections and drops others
C29_Witness ==
    /\ C29_Answered
    /\ IsSome(toolArgs.maxTransfers)
    /\ Len(C29_Widget) > 0
    /\ Len(C29_Widget) < Len(toolConnections)
    /\ Len(C29_Options) = Len(C29_Widget)

\* a limit below every connection: both fall back to the full list
C29_WitnessFallback ==
    /\ C29_Answered
    /\ IsSome(toolArgs.maxTransfers)
    /\ \A k \in 1..Len(toolConnections) :
          toolConnections[k].transfersCount > IntMax(0, Get(toolArgs.maxTransfers) \div 2)
    /\ Len(C29_Widget) = Len(toolConnections)
    /\ IsSome(Get(toolOut).decision.constraintNote)


-----------------------------------------------------------------------------
(***************************************************************************)
(* The exposure term and the rank                                          *)
(***************************************************************************)

\* two ranked connections that agree in risk score, duration, transfers,
\* walking minutes and exposure minutes, the first wet and the second not
C30_Twins(wet, dry) ==
    /\ wet # dry
    /\ C21_SameNumber(C21_Ranked[wet].option.riskScore,
                      C21_Ranked[dry].option.riskScore)
    /\ \A name \in {"durationMinutes", "transfersCount",
                    "walkingMinutes", "exposureMinutes"} :
          C21_Ranked[wet].option[name] = C21_Ranked[dry].option[name]
    /\ isWetWeather(C23_Connection(wet).weather)
    /\ ~isWetWeather(C23_Connection(dry).weather)

\* C30: with minimizeOutdoorIfRaining set, of two connections of one ranked
\* set that agree in risk score, duration, transfers, walking minutes and
\* exposure minutes, one of them wet and the other not, the wet one never
\* has the lower decision score.
C30_WetNeverBetter ==
    (IsSome(decOut) /\ decContext.preferences.minimizeOutdoorIfRaining) =>
        \A wet, dry \in 1..Len(C21_Ranked) :
            C30_Twins(wet, dry) =>
                ~QLt(C21_Ranked[wet].decisionScore, C21_Ranked[dry].decisionScore)

====
